---- MODULE Spec2Model ----
(***************************************************************************)
(* State-machine model of the betting backend's opportunity engine:       *)
(* DetectionService (arbitrage / EV / low-hold detectors),                 *)
(* OpportunityService (compute cycle, expiry sweep, mark-removed, lookup), *)
(* ArbitrageService (legacy arbitrage store, stake calculator),            *)
(* SessionService and BetService, over the CSV files of csv_io.            *)
(*                                                                         *)
(* Conventions.  Decimal odds and every value the code rounds to two       *)
(* decimals are integers in hundredths (2.10 is 210, 3.60 % is 360).       *)
(* Unrounded intermediate values are exact fractions <<num, den>>.         *)
(* Labels (event, sport, match, market, bookmaker, outcome) are naturals   *)
(* whose order is the lexical order of the strings they stand for, as      *)
(* pandas' groupby sorts group keys.  Time is counted in whole hours.      *)
(***************************************************************************)
EXTENDS Integers, Sequences, FiniteSets, TLC

VARIABLES
    now,                \* wall clock (datetime.now()), in hours
    odds_csv,           \* data/odds.csv
    opportunities_csv,  \* data/opportunities.csv (the unified collection)
    arbitrage_csv,      \* data/arbitrage.csv (ArbitrageService's store)
    sessions_csv,       \* data/sessions.csv
    bets_csv,           \* data/bets.csv
    nextId,             \* number of uuid4 values drawn so far, plus one
    inflight,           \* two calls in progress at once: their local values
    result              \* the last call: [op, arg, ret]

\* result.op and result.arg stand before result so that two calls are told
\* apart by operation and argument before their return values are compared
vars == <<now, odds_csv, opportunities_csv, arbitrage_csv, sessions_csv,
          bets_csv, nextId, inflight, result.op, result.arg, result>>

(***************************************************************************)
(* Bounds of the model.                                                    *)
(***************************************************************************)
MaxTime == 3        \* the clock stops advancing here
MaxId == 2          \* no detection cycle starts once this many ids are drawn
MaxQuotes == 2      \* rows of a supplied quote snapshot (lifecycle runs)

(***************************************************************************)
(* Program constants.                                                      *)
(***************************************************************************)
EXPIRY_HOURS == 2       \* timedelta(hours=2)
EV_MIN_EDGE == 200      \* 2.0 %
LOW_HOLD_MAX == 250     \* 2.5 %
KELLY_CAP == 1000       \* min(kelly_fraction * 100, 10)

\* Python's None, and the NaN pandas reads back from an empty CSV cell.
\* Both are kept apart from every number the program stores.
None == 0 - 2
NaN == 0 - 1

(***************************************************************************)
(* Exact arithmetic for the code's float expressions.                      *)
(***************************************************************************)
RECURSIVE GCD(_, _)
GCD(a, b) == IF b = 0 THEN a ELSE GCD(b, a % b)

\* the fraction n/d (d > 0, n >= 0) in lowest terms
Frac(n, d) == LET g == GCD(n, d) IN <<n \div g, d \div g>>

FracAdd(x, y) ==
    LET g == GCD(x[2], y[2])
        l == (x[2] \div g) * y[2]
    IN  Frac(x[1] * (l \div x[2]) + y[1] * (l \div y[2]), l)

\* 1 / odds, for odds given in hundredths
Inv(odds) == Frac(100, odds)

RECURSIVE SumInv(_)
SumInv(oddsSeq) ==
    IF oddsSeq = <<>> THEN <<0, 1>>
    ELSE FracAdd(Inv(Head(oddsSeq)), SumInv(Tail(oddsSeq)))

\* <<q, r>> with num * 10^k = q * den + r, 0 <= r < den (long division,
\* one decimal digit at a time)
RECURSIVE LongDiv(_, _, _)
LongDiv(num, den, k) ==
    IF k = 0 THEN <<num \div den, num % den>>
    ELSE LET p == LongDiv(num, den, k - 1)
         IN  <<10 * p[1] + ((10 * p[2]) \div den), (10 * p[2]) % den>>

\* round(num / den * 10^k) to the nearest integer, ties to even: Python's
\* round(x, 2) of a percentage is RoundScaled(num, den, 4), of a plain
\* two-decimal amount RoundScaled(num, den, 2)
RoundScaled(num, den, k) ==
    LET a == IF num < 0 THEN 0 - num ELSE num
        p == LongDiv(a, den, k)
        up == 2 * p[2] > den \/ (2 * p[2] = den /\ p[1] % 2 = 1)
        q == IF up THEN p[1] + 1 ELSE p[1]
    IN  IF num < 0 THEN 0 - q ELSE q

\* <<W, g>> with num / den * 10^4 = W + g / den, W an integer (the floor,
\* also of a negative value) and 0 <= g < den
FloorPct(num, den) ==
    LET p == LongDiv(IF num < 0 THEN 0 - num ELSE num, den, 4)
    IN  IF num >= 0 THEN p
        ELSE IF p[2] = 0 THEN <<0 - p[1], 0>>
        ELSE <<0 - p[1] - 1, den - p[2]>>

\* round((Y + g / den) / 2) to the nearest integer, ties to even
RoundHalfOf(Y, g, den) ==
    LET q == Y \div 2
        r == (Y % 2) * den + g
    IN  IF r > den \/ (r = den /\ q % 2 = 1) THEN q + 1 ELSE q

\* the decimal digits of n >= 0, most significant first
RECURSIVE DecimalDigits(_)
DecimalDigits(n) ==
    IF n < 10 THEN <<n>> ELSE Append(DecimalDigits(n \div 10), n % 10)

\* <<q, r>> with t * num = q * den + r, 0 <= r < den, for t, num >= 0: the
\* product is accumulated over the digits of t so that it stays in range
RECURSIVE MulDivDigits(_, _, _)
MulDivDigits(ds, num, den) ==
    IF ds = <<>> THEN <<0, 0>>
    ELSE LET p == MulDivDigits(SubSeq(ds, 1, Len(ds) - 1), num, den)
             c == 10 * p[2] + ds[Len(ds)] * num
         IN  <<10 * p[1] + (c \div den), c % den>>

\* round(t * num / den) to the nearest integer, ties to even (t, num >= 0)
MulRound(t, num, den) ==
    LET p == MulDivDigits(DecimalDigits(t), num, den)
    IN  IF 2 * p[2] > den \/ (2 * p[2] = den /\ p[1] % 2 = 1)
        THEN p[1] + 1 ELSE p[1]

(***************************************************************************)
(* Sequence helpers standing for the pandas operations the code uses.      *)
(***************************************************************************)
RECURSIVE LexLess(_, _)
LexLess(a, b) ==
    IF a = <<>> THEN FALSE
    ELSE a[1] < b[1] \/ (a[1] = b[1] /\ LexLess(Tail(a), Tail(b)))

\* the keys of a groupby, in the sorted order pandas iterates them
RECURSIVE SortedKeys(_)
SortedKeys(S) ==
    IF S = {} THEN <<>>
    ELSE LET m == CHOOSE k \in S : \A j \in S \ {k} : LexLess(k, j)
         IN  <<m>> \o SortedKeys(S \ {m})

\* Series.unique(): the distinct values in order of first appearance
RECURSIVE unique(_)
unique(s) ==
    IF s = <<>> THEN <<>>
    ELSE LET n == Len(s)
             u == unique(SubSeq(s, 1, n - 1))
         IN  IF \E i \in 1..(n - 1) : s[i] = s[n] THEN u ELSE Append(u, s[n])

\* df[f]: one column of a DataFrame
Column(df, f) == [i \in DOMAIN df |-> df[i][f]]

\* a variant of idxmax_row that takes the first row, whatever its odds
first_row(df) == df[1]

\* df.loc[df['odds'].idxmax()]: the first row holding the maximum odds
idxmax_row(df) ==
    LET i == CHOOSE i \in DOMAIN df :
                 /\ \A j \in DOMAIN df : df[j].odds <= df[i].odds
                 /\ \A j \in 1..(i - 1) : df[j].odds < df[i].odds
    IN  df[i]

RECURSIVE Flatten(_)
Flatten(ss) == IF ss = <<>> THEN <<>> ELSE Head(ss) \o Flatten(Tail(ss))

\* str(uuid.uuid4()) for each record of a detector's output, in order
WithIds(opps, firstId) ==
    [i \in DOMAIN opps |-> [opps[i] EXCEPT !.id = firstId + i - 1]]

(***************************************************************************)
(* csv_io: a file is absent, or holds a header and rows.                   *)
(***************************************************************************)
NoFile == [exists |-> FALSE, rows |-> <<>>]

\* safe_read_csv: the rows, or an empty DataFrame when the file is absent
safe_read_csv(file) == IF file.exists THEN file.rows ELSE <<>>

\* to_csv followed by read_csv: None is written as an empty cell, read NaN
csv_value(v) == IF v = None THEN NaN ELSE v

\* safe_write_csv(filepath, df) in mode 'w': the file becomes df
safe_write_csv(df) == [exists |-> TRUE, rows |-> df]

\* append_row, i.e. safe_write_csv in mode 'a'.  The row is written without a
\* header line.  When the file exists it is read, the row is concatenated and
\* the whole is rewritten with a header.  When the file is absent the
\* header-less temporary file becomes the file: read_csv then takes its only
\* line for the header, so the DataFrame read back has no rows.
append_row(file, row) ==
    IF file.exists
    THEN [exists |-> TRUE, rows |-> Append(safe_read_csv(file), row)]
    ELSE [exists |-> TRUE, rows |-> <<>>]

(***************************************************************************)
(* DetectionService.detect_arbitrage                                       *)
(***************************************************************************)
\* the rows of df whose outcome is o: group[group['outcome'] == o]
OutcomeRows(group, o) == SelectSeq(group, LAMBDA r : r.outcome = o)

\* arb_percentage < 100, for the unrounded sum of 1/odds
IsArb(total) == total[1] < total[2]

\* round(arb_percentage, 2) of the unrounded sum of 1/odds
ArbPercentage(total) == RoundScaled(total[1], total[2], 4)

\* round(100 - arb_percentage, 2)
ProfitPercentage(total) == RoundScaled(total[2] - total[1], total[2], 4)

find_two_way_arb(group, event_id, sport, match, market, timestamp, expires_at) ==
    LET outcomes == unique(Column(group, "outcome"))
    IN  IF Len(outcomes) # 2 THEN <<>>
        ELSE
        LET best_odds1 == idxmax_row(OutcomeRows(group, outcomes[1]))
            best_odds2 == idxmax_row(OutcomeRows(group, outcomes[2]))
            total == SumInv(<<best_odds1.odds, best_odds2.odds>>)
        IN  IF IsArb(total)
            THEN << [id |-> 0, type |-> "arbitrage", event_id |-> event_id,
                     sport |-> sport, match |-> match, market |-> market,
                     outcome1 |-> outcomes[1],
                     bookmaker1 |-> best_odds1.bookmaker,
                     odds1 |-> best_odds1.odds,
                     outcome2 |-> outcomes[2],
                     bookmaker2 |-> best_odds2.bookmaker,
                     odds2 |-> best_odds2.odds,
                     outcome3 |-> None, bookmaker3 |-> None, odds3 |-> None,
                     arb_percentage |-> ArbPercentage(total),
                     profit_percentage |-> ProfitPercentage(total),
                     roi |-> ProfitPercentage(total),
                     status |-> "active",
                     timestamp |-> timestamp, expires_at |-> expires_at] >>
            ELSE <<>>

find_three_way_arb(group, event_id, sport, match, market, timestamp, expires_at) ==
    LET outcomes == unique(Column(group, "outcome"))
    IN  IF Len(outcomes) # 3 THEN <<>>
        ELSE
        LET best_odds1 == idxmax_row(OutcomeRows(group, outcomes[1]))
            best_odds2 == idxmax_row(OutcomeRows(group, outcomes[2]))
            best_odds3 == idxmax_row(OutcomeRows(group, outcomes[3]))
            total == SumInv(<<best_odds1.odds, best_odds2.odds, best_odds3.odds>>)
        IN  IF IsArb(total)
            THEN << [id |-> 0, type |-> "arbitrage", event_id |-> event_id,
                     sport |-> sport, match |-> match, market |-> market,
                     outcome1 |-> outcomes[1],
                     bookmaker1 |-> best_odds1.bookmaker,
                     odds1 |-> best_odds1.odds,
                     outcome2 |-> outcomes[2],
                     bookmaker2 |-> best_odds2.bookmaker,
                     odds2 |-> best_odds2.odds,
                     outcome3 |-> outcomes[3],
                     bookmaker3 |-> best_odds3.bookmaker,
                     odds3 |-> best_odds3.odds,
                     arb_percentage |-> ArbPercentage(total),
                     profit_percentage |-> ProfitPercentage(total),
                     roi |-> ProfitPercentage(total),
                     status |-> "active",
                     timestamp |-> timestamp, expires_at |-> expires_at] >>
            ELSE <<>>

\* the key of odds_df.groupby(['event_id', 'sport', 'match', 'market'])
MarketKey(r) == <<r.event_id, r.sport, r.match, r.market>>

MarketGroup(df, key) == SelectSeq(df, LAMBDA r : MarketKey(r) = key)

detect_arbitrage(odds_df, clock, firstId) ==
    IF odds_df = <<>> THEN <<>>
    ELSE
    LET timestamp == clock
        expires_at == clock + EXPIRY_HOURS
        keys == SortedKeys({MarketKey(odds_df[i]) : i \in DOMAIN odds_df})
        arbsOf(key) ==
            LET group == MarketGroup(odds_df, key)
                n == Len(unique(Column(group, "outcome")))
            IN  IF n = 2
                THEN find_two_way_arb(group, key[1], key[2], key[3], key[4],
                                      timestamp, expires_at)
                ELSE IF n = 3
                THEN find_three_way_arb(group, key[1], key[2], key[3], key[4],
                                        timestamp, expires_at)
                ELSE <<>>
    IN  WithIds(Flatten([i \in DOMAIN keys |-> arbsOf(keys[i])]), firstId)

(***************************************************************************)
(* Labels.  A row stores the index of its market and outcome label; the    *)
(* tables give the text, one character per element.  Each table is in      *)
(* ascending string order.                                                 *)
(***************************************************************************)
MarketLabel ==
    (0 :> <<"1","2">>) @@                                       \* 12
    << <<"M","a","t","c","h"," ","W","i","n","n","e","r">>,    \* Match Winner
       <<"T","o","t","a","l">>,                                 \* Total
       <<"s","p","r","e","a","d">> >>                           \* spread

OutcomeLabel ==
    << <<"A","w","a","y">>,                                     \* Away
       <<"D","r","a","w">>,                                     \* Draw
       <<"H","o","m","e">>,                                     \* Home
       <<"O","v","e","r"," ","2",".","5">>,                     \* Over 2.5
       <<"T","e","a","m","1"," ","+","3",".","5">>,             \* Team1 +3.5
       <<"U","n","d","e","r"," ","3",".","5">> >>               \* Under 3.5

Upper == <<"A","B","C","D","E","F","G","H","I","J","K","L","M",
           "N","O","P","Q","R","S","T","U","V","W","X","Y","Z">>
Lower == <<"a","b","c","d","e","f","g","h","i","j","k","l","m",
           "n","o","p","q","r","s","t","u","v","w","x","y","z">>

\* str.lower(), character by character
lower(text) ==
    [i \in DOMAIN text |->
        IF \E k \in DOMAIN Upper : Upper[k] = text[i]
        THEN Lower[CHOOSE k \in DOMAIN Upper : Upper[k] = text[i]]
        ELSE text[i]]

Contains(text, word) ==
    \E i \in 1..(Len(text) - Len(word) + 1) :
        SubSeq(text, i, i + Len(word) - 1) = word

\* str.contains('Spread|Total|Line', case=False)
IsLineMarket(market) ==
    LET t == lower(MarketLabel[market])
    IN  \/ Contains(t, <<"s","p","r","e","a","d">>)
        \/ Contains(t, <<"t","o","t","a","l">>)
        \/ Contains(t, <<"l","i","n","e">>)

(***************************************************************************)
(* DetectionService._extract_lines and detect_middles                      *)
(***************************************************************************)
MIDDLE_MIN_GAP == 50    \* 0.5
MIDDLE_MAX_GAP == 1000  \* 10

Digits == <<"0","1","2","3","4","5","6","7","8","9">>
IsDigit(c) == \E k \in DOMAIN Digits : Digits[k] = c
DigitValue(c) == (CHOOSE k \in DOMAIN Digits : Digits[k] = c) - 1

RECURSIVE DecimalValue(_)
DecimalValue(ds) ==
    IF ds = <<>> THEN 0
    ELSE 10 * DecimalValue(SubSeq(ds, 1, Len(ds) - 1)) + DigitValue(ds[Len(ds)])

\* ''.join(filter(lambda x: x.isdigit() or x in '.-', text))
KeepNumeric(text) ==
    SelectSeq(text, LAMBDA c : IsDigit(c) \/ c = "." \/ c = "-")

\* float(t) for a text of digits, '.' and '-': <<value in hundredths>>, or
\* <<>> when float raises ValueError.  Texts carry at most two decimals.
ParseFloat(t) ==
    LET neg == t # <<>> /\ t[1] = "-"
        body == IF neg THEN Tail(t) ELSE t
        dots == {i \in DOMAIN body : body[i] = "."}
        valid == /\ \A i \in DOMAIN body : body[i] # "-"
                 /\ Cardinality(dots) <= 1
                 /\ \E i \in DOMAIN body : IsDigit(body[i])
        dot == IF dots = {} THEN Len(body) + 1 ELSE CHOOSE i \in dots : TRUE
        whole == DecimalValue(SubSeq(body, 1, dot - 1))
        decimals == SubSeq(body, dot + 1, Len(body))
        cents == IF Len(decimals) = 0 THEN 0
                 ELSE IF Len(decimals) = 1 THEN 10 * DigitValue(decimals[1])
                 ELSE 10 * DigitValue(decimals[1]) + DigitValue(decimals[2])
        magnitude == 100 * whole + cents
    IN  IF ~valid THEN <<>>
        ELSE IF neg THEN <<0 - magnitude>> ELSE <<magnitude>>

\* the line of one row: from market_params when it is not NaN (a row holds
\* <<>> for NaN and <<text>> otherwise), else from the outcome label
RowLine(row) ==
    IF row.market_params # <<>>
    THEN ParseFloat(KeepNumeric(row.market_params[1]))
    ELSE ParseFloat(KeepNumeric(OutcomeLabel[row.outcome]))

\* a variant of extract_lines that reads a label without a number as line 0
extract_lines_or_zero(row1, row2) ==
    <<IF RowLine(row1) = <<>> THEN 0 ELSE RowLine(row1)[1],
      IF RowLine(row2) = <<>> THEN 0 ELSE RowLine(row2)[1]>>

\* _extract_lines: <<line1, line2>>, or <<>> for (None, None) when either
\* conversion raises
extract_lines(row1, row2) ==
    IF RowLine(row1) = <<>> \/ RowLine(row2) = <<>> THEN <<>>
    ELSE <<RowLine(row1)[1], RowLine(row2)[1]>>

Abs(x) == IF x < 0 THEN 0 - x ELSE x
Min(a, b) == IF a <= b THEN a ELSE b
Max(a, b) == IF a >= b THEN a ELSE b

middle_pair(row1, row2, key, timestamp, expires_at) ==
    LET lines == extract_lines(row1, row2)
    IN  IF lines = <<>> THEN <<>>
        ELSE
        LET gap == Abs(lines[1] - lines[2])
            total == SumInv(<<row1.odds, row2.odds>>)
            \* worst_case_loss = -((1/odds1 + 1/odds2) - 1) * 100
            worst == FloorPct(total[2] - total[1], total[2])
            \* max_profit = min(odds1 - 1, odds2 - 1) * 100
            max_profit == 100 * (Min(row1.odds, row2.odds) - 100)
        IN  IF MIDDLE_MIN_GAP <= gap /\ gap <= MIDDLE_MAX_GAP
            THEN << [id |-> 0, type |-> "middle", event_id |-> key[1],
                     sport |-> key[2], match |-> key[3], market |-> key[4],
                     line1 |-> lines[1], bookmaker1 |-> row1.bookmaker,
                     odds1 |-> row1.odds,
                     line2 |-> lines[2], bookmaker2 |-> row2.bookmaker,
                     odds2 |-> row2.odds,
                     middle_range |->
                         <<Min(lines[1], lines[2]), Max(lines[1], lines[2])>>,
                     win_both_scenarios |->
                         <<Min(lines[1], lines[2]), Max(lines[1], lines[2])>>,
                     max_profit_percentage |-> max_profit,
                     worst_case_loss_percentage |->
                         RoundScaled(total[2] - total[1], total[2], 4),
                     roi |-> RoundHalfOf(max_profit + worst[1], worst[2],
                                         total[2]),
                     status |-> "active",
                     timestamp |-> timestamp, expires_at |-> expires_at] >>
            ELSE <<>>

\* read_csv types a column whose cells are all numbers as numeric
IsNumericColumn(df) ==
    /\ df # <<>>
    /\ \A i \in DOMAIN df :
           \A k \in DOMAIN MarketLabel[df[i].market] :
               IsDigit(MarketLabel[df[i].market][k])

\* odds_df['market'].str raises AttributeError ("Can only use .str accessor
\* with string values") on a numeric column; detect_middles reaches it when
\* odds_df has rows.  file_df is the DataFrame odds_df was filtered from: a
\* filter keeps the column's type
detect_middles_raises(file_df, odds_df) ==
    odds_df # <<>> /\ IsNumericColumn(file_df)

\* a variant of find_middle_in_group that skips a row paired with itself
\* only, so that each pair of rows is visited in both orders
find_middle_both_orders(group, key, timestamp, expires_at) ==
    LET rowPairs(i) ==
            Flatten([j \in DOMAIN group |->
                IF i = j \/ group[i].bookmaker = group[j].bookmaker
                THEN <<>>
                ELSE middle_pair(group[i], group[j], key,
                                 timestamp, expires_at)])
    IN  Flatten([i \in DOMAIN group |-> rowPairs(i)])

find_middle_in_group(group, key, timestamp, expires_at) ==
    LET rowPairs(i) ==
            Flatten([j \in DOMAIN group |->
                IF i >= j \/ group[i].bookmaker = group[j].bookmaker
                THEN <<>>
                ELSE middle_pair(group[i], group[j], key,
                                 timestamp, expires_at)])
    IN  Flatten([i \in DOMAIN group |-> rowPairs(i)])

detect_middles(odds_df, clock, firstId) ==
    IF odds_df = <<>> THEN <<>>
    ELSE
    LET timestamp == clock
        expires_at == clock + EXPIRY_HOURS
        spread_markets == SelectSeq(odds_df, LAMBDA r : IsLineMarket(r.market))
        keys == SortedKeys({MarketKey(spread_markets[i]) :
                               i \in DOMAIN spread_markets})
        middlesOf(key) ==
            find_middle_in_group(MarketGroup(spread_markets, key), key,
                                 timestamp, expires_at)
    IN  WithIds(Flatten([i \in DOMAIN keys |-> middlesOf(keys[i])]), firstId)

(***************************************************************************)
(* DetectionService.detect_ev                                              *)
(***************************************************************************)
\* the key of odds_df.groupby([..., 'market', 'outcome'])
OutcomeKey(r) == <<r.event_id, r.sport, r.match, r.market, r.outcome>>

RECURSIVE SumSeq(_)
SumSeq(s) == IF s = <<>> THEN 0 ELSE Head(s) + SumSeq(Tail(s))

\* a variant of EdgeAtLeastMin whose threshold is 0
EdgeAtLeastZero(offered_odds, S, n) == n * offered_odds - S >= 0

\* edge_percentage >= EV_MIN_EDGE, where with S the sum and n the number of
\* the group's odds: edge_percentage = (1 - (1/offered)/(1/(S/n))) * 100
\*                                   = 100 * (n*offered - S) / (n*offered)
EdgeAtLeastMin(offered_odds, S, n) ==
    10000 * (n * offered_odds - S) >= EV_MIN_EDGE * n * offered_odds

ev_row(row, S, n, key, timestamp, expires_at) ==
    LET offered_odds == row.odds
        gain == n * offered_odds - S
        \* kelly_fraction * 100 = 100 * (offered*fair_p - 1) / (offered - 1)
        \* capped at 10, floored at 0
        kellyNum == 100 * gain
        kellyDen == S * (offered_odds - 100)
        recommended_stake ==
            IF kellyNum >= 10 * kellyDen THEN KELLY_CAP
            ELSE RoundScaled(kellyNum, kellyDen, 4)
    IN  IF EdgeAtLeastMin(offered_odds, S, n)
        THEN << [id |-> 0, type |-> "ev", event_id |-> key[1],
                 sport |-> key[2], match |-> key[3], market |-> key[4],
                 outcome |-> key[5], bookmaker |-> row.bookmaker,
                 offered_odds |-> offered_odds,
                 fair_odds |-> RoundScaled(S, n, 0),
                 fair_probability |-> RoundScaled(100 * n, S, 4),
                 implied_probability |-> RoundScaled(100, offered_odds, 4),
                 expected_value |-> RoundScaled(gain, S, 4),
                 edge_percentage |-> RoundScaled(gain, n * offered_odds, 4),
                 roi |-> RoundScaled(gain, n * offered_odds, 4),
                 recommended_stake |-> recommended_stake,
                 status |-> "active",
                 timestamp |-> timestamp, expires_at |-> expires_at] >>
        ELSE <<>>

detect_ev(odds_df, clock, firstId) ==
    IF odds_df = <<>> THEN <<>>
    ELSE
    LET timestamp == clock
        expires_at == clock + EXPIRY_HOURS
        keys == SortedKeys({OutcomeKey(odds_df[i]) : i \in DOMAIN odds_df})
        evsOf(key) ==
            LET group == SelectSeq(odds_df, LAMBDA r : OutcomeKey(r) = key)
                S == SumSeq(Column(group, "odds"))
                n == Len(group)
            IN  Flatten([i \in DOMAIN group |->
                           ev_row(group[i], S, n, key, timestamp, expires_at)])
    IN  WithIds(Flatten([i \in DOMAIN keys |-> evsOf(keys[i])]), firstId)

(***************************************************************************)
(* DetectionService.detect_lows                                            *)
(***************************************************************************)
\* the key of odds_df.groupby([..., 'market', 'bookmaker'])
BookKey(r) == <<r.event_id, r.sport, r.match, r.market, r.bookmaker>>

\* a variant of IsLowHold whose threshold is 0
IsNoHold(total) == total[1] <= total[2]

\* hold_percentage <= LOW_HOLD_MAX, for total = the unrounded sum of 1/odds
\* and hold_percentage = (total - 1) * 100; the quotient is taken digit by
\* digit so that no intermediate product leaves the integers' range
IsLowHold(total) ==
    LET d == total[1] - total[2]
        p == LongDiv(d, total[2], 4)
    IN  d <= 0 \/ p[1] < LOW_HOLD_MAX \/ (p[1] = LOW_HOLD_MAX /\ p[2] = 0)

\* round((total - 1) * 100, 2)
HoldPercentage(total) == RoundScaled(total[1] - total[2], total[2], 4)

\* round((LOW_HOLD_MAX - hold_percentage) / 2, 2)
LowRoi(total) ==
    LET minusHold == FloorPct(total[2] - total[1], total[2])
    IN  RoundHalfOf(LOW_HOLD_MAX + minusHold[1], minusHold[2], total[2])

\* the dict built by assigning d[row['outcome']] = value(row) row by row:
\* a later row with the same outcome overwrites an earlier one
LastRow(group, o) ==
    group[CHOOSE i \in DOMAIN group :
              /\ group[i].outcome = o
              /\ \A j \in DOMAIN group : group[j].outcome = o => j <= i]

\* the keys of those dicts
DictKeys(group) == {group[i].outcome : i \in DOMAIN group}

low_group(group, key, timestamp, expires_at) ==
    LET total == SumInv(Column(group, "odds"))
        \* round(implied_prob / total_implied_prob * 100, 2)
        true_prob(row) ==
            RoundScaled(100 * total[2], row.odds * total[1], 4)
    IN  IF IsLowHold(total)
        THEN << [id |-> 0, type |-> "low", event_id |-> key[1],
                 sport |-> key[2], match |-> key[3], market |-> key[4],
                 bookmaker |-> key[5],
                 outcomes |-> [o \in DictKeys(group) |->
                                  LastRow(group, o).odds],
                 total_implied_probability |->
                     RoundScaled(total[1], total[2], 4),
                 hold_percentage |-> HoldPercentage(total),
                 true_probability_estimates |->
                     [o \in DictKeys(group) |-> true_prob(LastRow(group, o))],
                 roi |-> LowRoi(total),
                 status |-> "active",
                 timestamp |-> timestamp, expires_at |-> expires_at] >>
        ELSE <<>>

detect_lows(odds_df, clock, firstId) ==
    IF odds_df = <<>> THEN <<>>
    ELSE
    LET timestamp == clock
        expires_at == clock + EXPIRY_HOURS
        keys == SortedKeys({BookKey(odds_df[i]) : i \in DOMAIN odds_df})
        lowsOf(key) ==
            low_group(SelectSeq(odds_df, LAMBDA r : BookKey(r) = key),
                      key, timestamp, expires_at)
    IN  WithIds(Flatten([i \in DOMAIN keys |-> lowsOf(keys[i])]), firstId)

(***************************************************************************)
(* OpportunityService                                                      *)
(***************************************************************************)
\* one row of opportunities.csv, as read back from the file; details is the
\* detector's record (json.dumps on writing, json.loads on reading)
UnifiedRow(opp, profit_percentage) ==
    [id |-> opp.id, type |-> opp.type, event_id |-> opp.event_id,
     sport |-> opp.sport, match |-> opp.match, roi |-> opp.roi,
     profit_percentage |-> csv_value(profit_percentage),
     status |-> "active",
     timestamp |-> opp.timestamp, expires_at |-> opp.expires_at,
     details |-> opp]

\* is_expired(expires_at): now > expiry
is_expired(expires_at, clock) == clock > expires_at

\* _cleanup_expired_opportunities: the file it leaves
cleanup_expired_opportunities(file, clock) ==
    LET df == safe_read_csv(file)
    IN  IF df = <<>> THEN file
        ELSE safe_write_csv(
                 [i \in DOMAIN df |->
                     IF is_expired(df[i].expires_at, clock)
                     THEN [df[i] EXCEPT !.status = "expired"]
                     ELSE df[i]])

\* the filter odds_df[odds_df['is_active'] == True]
ActiveOdds(odds_df) == SelectSeq(odds_df, LAMBDA r : r.is_active)

\* the detector results of one compute cycle, as one record
CycleDetections(arbitrage_opps, middle_opps, ev_opps, low_opps) ==
    [arbitrage |-> arbitrage_opps, middles |-> middle_opps,
     ev |-> ev_opps, lows |-> low_opps]

\* all_opportunities of compute_all_opportunities
AllOpportunities(d) ==
    [i \in DOMAIN d.arbitrage |->
        UnifiedRow(d.arbitrage[i], d.arbitrage[i].profit_percentage)]
    \o [i \in DOMAIN d.middles |->
        UnifiedRow(d.middles[i], d.middles[i].max_profit_percentage)]
    \o [i \in DOMAIN d.ev |->
        UnifiedRow(d.ev[i], d.ev[i].edge_percentage)]
    \o [i \in DOMAIN d.lows |-> UnifiedRow(d.lows[i], None)]

\* a variant of WriteCycle that adds the new rows to the swept file
WriteCycleAppend(file, all_opportunities, clock) ==
    LET swept == cleanup_expired_opportunities(file, clock)
    IN  IF all_opportunities # <<>>
        THEN safe_write_csv(safe_read_csv(swept) \o all_opportunities)
        ELSE swept

\* the file compute_all_opportunities leaves once past the empty-odds return:
\* the sweep is written first, then the new rows replace the file's content
WriteCycle(file, all_opportunities, clock) ==
    LET swept == cleanup_expired_opportunities(file, clock)
    IN  IF all_opportunities # <<>>
        THEN safe_write_csv(all_opportunities)
        ELSE swept

Counts(d) ==
    [arbitrage |-> Len(d.arbitrage), middles |-> Len(d.middles),
     ev |-> Len(d.ev), lows |-> Len(d.lows),
     total |-> Len(d.arbitrage) + Len(d.middles) + Len(d.ev) + Len(d.lows)]

ZeroCounts == [arbitrage |-> 0, middles |-> 0, ev |-> 0, lows |-> 0, total |-> 0]

\* a variant of FirstWithId that returns the first row, whatever its id
FirstRow(df, field, id) == IF df = <<>> THEN <<>> ELSE <<df[1]>>

\* a lookup's Optional result: <<>> for None, <<record>> otherwise
FirstWithId(df, field, id) ==
    LET hits == SelectSeq(df, LAMBDA r : r[field] = id)
    IN  IF hits = <<>> THEN <<>> ELSE <<hits[1]>>

get_opportunity_by_id(file, opportunity_id) ==
    LET hit == FirstWithId(safe_read_csv(file), "id", opportunity_id)
    IN  IF hit = <<>> THEN <<>> ELSE <<hit[1].details>>

\* a variant of mark_opportunity_as_used that writes back the addressed row
\* alone
mark_and_keep_one(file, opportunity_id) ==
    LET hits == SelectSeq(safe_read_csv(file), LAMBDA r : r.id = opportunity_id)
    IN  IF hits = <<>>
        THEN [ret |-> FALSE, file |-> file]
        ELSE [ret |-> TRUE,
              file |-> safe_write_csv(<<[hits[1] EXCEPT !.status = "removed"]>>)]

\* mark_opportunity_as_used: [ret, file]
mark_opportunity_as_used(file, opportunity_id) ==
    LET df == safe_read_csv(file)
        hits == {i \in DOMAIN df : df[i].id = opportunity_id}
    IN  IF df = <<>> \/ hits = {}
        THEN [ret |-> FALSE, file |-> file]
        ELSE LET idx == CHOOSE i \in hits : \A j \in hits : i <= j
             IN  [ret |-> TRUE,
                  file |-> safe_write_csv([df EXCEPT ![idx].status = "removed"])]

\* the sport names behind the sport numbers of the rows
SportLabel ==
    << <<"F","o","o","t","b","a","l","l">> >>                   \* Football

\* the orders of the rows of df that have them sorted by roi, highest first
Orderings(df) ==
    {p \in [DOMAIN df -> DOMAIN df] :
        /\ \A i, j \in DOMAIN df : i # j => p[i] # p[j]
        /\ \A i, j \in DOMAIN df : i < j => df[p[i]].roi >= df[p[j]].roi}

\* df.sort_values('roi', ascending=False): sort_values is called without
\* kind, so the sort is pandas' default quicksort, which does not promise to
\* keep rows of equal roi in their order; every order sorted by roi is a
\* possible outcome
sort_values(df) == {[i \in DOMAIN df |-> df[p[i]]] : p \in Orderings(df)}

\* df.head(top_n)
head(df, top_n) == SubSeq(df, 1, Min(top_n, Len(df)))

\* the rows get_opportunities keeps before it sorts them.  category "" and
\* sport <<>> stand for None; a filter on roi or on profit_percentage is
\* applied only when its bound is above 0, and a NaN profit_percentage
\* fails the comparison
FilterOpportunities(df, category, sport, min_roi, min_profit, status) ==
    SelectSeq(df, LAMBDA r :
        /\ status # "" => r.status = status
        /\ category # "" => r.type = category
        /\ sport # <<>> => lower(SportLabel[r.sport]) = lower(sport)
        /\ min_roi > 0 => r.roi >= min_roi
        /\ min_profit > 0 =>
               (r.profit_percentage # NaN /\ r.profit_percentage >= min_profit))

\* get_opportunities: the lists of details it can return
get_opportunities(file, category, sport, min_roi, min_profit, top_n, status) ==
    LET df == safe_read_csv(file)
        kept == FilterOpportunities(df, category, sport, min_roi, min_profit,
                                    status)
    IN  IF df = <<>> THEN {<<>>}
        ELSE {Column(head(sorted, top_n), "details") :
                 sorted \in sort_values(kept)}

(***************************************************************************)
(* ArbitrageService                                                        *)
(***************************************************************************)
\* one row of arbitrage.csv as read back: the None cells are NaN
ArbRow(sport, match, market, legs, total, timestamp) ==
    [id |-> 0, sport |-> sport, match |-> match, market |-> market,
     outcome1 |-> legs[1].outcome, bookmaker1 |-> legs[1].bookmaker,
     odds1 |-> legs[1].odds,
     outcome2 |-> legs[2].outcome, bookmaker2 |-> legs[2].bookmaker,
     odds2 |-> legs[2].odds,
     outcome3 |-> IF Len(legs) = 3 THEN legs[3].outcome ELSE csv_value(None),
     bookmaker3 |-> IF Len(legs) = 3 THEN legs[3].bookmaker ELSE csv_value(None),
     odds3 |-> IF Len(legs) = 3 THEN legs[3].odds ELSE csv_value(None),
     arb_percentage |-> ArbPercentage(total),
     profit_percentage |-> ProfitPercentage(total),
     timestamp |-> timestamp]

find_two_way_arbs(group, sport, match, market, timestamp) ==
    LET outcomes == unique(Column(group, "outcome"))
    IN  IF Len(outcomes) # 2 THEN <<>>
        ELSE
        LET best_odds1 == idxmax_row(OutcomeRows(group, outcomes[1]))
            best_odds2 == idxmax_row(OutcomeRows(group, outcomes[2]))
            total == SumInv(<<best_odds1.odds, best_odds2.odds>>)
        IN  IF IsArb(total)
            THEN <<ArbRow(sport, match, market, <<best_odds1, best_odds2>>,
                          total, timestamp)>>
            ELSE <<>>

find_three_way_arbs(group, sport, match, market, timestamp) ==
    LET outcomes == unique(Column(group, "outcome"))
    IN  IF Len(outcomes) # 3 THEN <<>>
        ELSE
        LET best_odds1 == idxmax_row(OutcomeRows(group, outcomes[1]))
            best_odds2 == idxmax_row(OutcomeRows(group, outcomes[2]))
            best_odds3 == idxmax_row(OutcomeRows(group, outcomes[3]))
            total == SumInv(<<best_odds1.odds, best_odds2.odds, best_odds3.odds>>)
        IN  IF IsArb(total)
            THEN <<ArbRow(sport, match, market,
                          <<best_odds1, best_odds2, best_odds3>>,
                          total, timestamp)>>
            ELSE <<>>

\* the key of odds_df.groupby(['sport', 'match', 'market'])
SportKey(r) == <<r.sport, r.match, r.market>>

\* arbitrage_opportunities of compute_arbitrage (every row of odds.csv is
\* read, active or not)
compute_arbitrage(odds_df, clock, firstId) ==
    LET keys == SortedKeys({SportKey(odds_df[i]) : i \in DOMAIN odds_df})
        arbsOf(key) ==
            LET group == SelectSeq(odds_df, LAMBDA r : SportKey(r) = key)
                n == Len(unique(Column(group, "outcome")))
            IN  IF n = 2
                THEN find_two_way_arbs(group, key[1], key[2], key[3], clock)
                ELSE IF n = 3
                THEN find_three_way_arbs(group, key[1], key[2], key[3], clock)
                ELSE <<>>
    IN  WithIds(Flatten([i \in DOMAIN keys |-> arbsOf(keys[i])]), firstId)

get_arbitrage_by_id(file, arb_id) ==
    FirstWithId(safe_read_csv(file), "id", arb_id)

\* Python truth value of a cell: None and 0 are false, NaN is true
Truthy(v) == v # None /\ v # 0

\* total_stake * (1/odds) / total_prob, rounded to cents; NaN when odds or
\* total_prob is NaN
Stake(total_stake, odds, total) ==
    IF odds = NaN \/ total[1] = NaN THEN NaN
    ELSE LET share == Frac(Inv(odds)[1] * total[2], Inv(odds)[2] * total[1])
         IN  MulRound(total_stake, share[1], share[2])

\* 1/odds1 + 1/odds2 + ... as a fraction; <<NaN, 1>> as soon as one term
\* is NaN
TotalProb(oddsSeq) ==
    IF \E i \in DOMAIN oddsSeq : oddsSeq[i] = NaN THEN <<NaN, 1>>
    ELSE SumInv(oddsSeq)

\* calculate_stakes: <<>> for None, else <<the result dict>>.  The stakes and
\* bookmakers dicts are kept as sequences in insertion order.
calculate_stakes(file, arb_id, total_stake) ==
    LET found == get_arbitrage_by_id(file, arb_id)
    IN  IF found = <<>> THEN <<>>
        ELSE
        LET arb == found[1]
            oddsSeq == IF Truthy(arb.odds3)
                       THEN <<arb.odds1, arb.odds2, arb.odds3>>
                       ELSE <<arb.odds1, arb.odds2>>
            outcomes == IF Truthy(arb.odds3)
                        THEN <<arb.outcome1, arb.outcome2, arb.outcome3>>
                        ELSE <<arb.outcome1, arb.outcome2>>
            bookmakers == IF Truthy(arb.odds3)
                          THEN <<arb.bookmaker1, arb.bookmaker2, arb.bookmaker3>>
                          ELSE <<arb.bookmaker1, arb.bookmaker2>>
            total_prob == TotalProb(oddsSeq)
            \* expected_return = stake1 * odds1 = total_stake / total_prob
            expected_return ==
                IF total_prob[1] = NaN THEN NaN
                ELSE MulRound(total_stake, total_prob[2], total_prob[1])
            expected_profit ==
                IF total_prob[1] = NaN THEN NaN
                ELSE MulRound(total_stake, total_prob[2] - total_prob[1],
                              total_prob[1])
        IN  << [stakes |-> [i \in DOMAIN oddsSeq |->
                               [outcome |-> outcomes[i],
                                stake |-> Stake(total_stake, oddsSeq[i],
                                                total_prob)]],
                bookmakers |-> [i \in DOMAIN oddsSeq |->
                                   [outcome |-> outcomes[i],
                                    bookmaker |-> bookmakers[i]]],
                total_stake |-> total_stake,
                expected_return |-> expected_return,
                expected_profit |-> expected_profit,
                profit_percentage |-> arb.profit_percentage] >>

(***************************************************************************)
(* SessionService and BetService                                           *)
(***************************************************************************)
get_session(file, session_id) ==
    FirstWithId(safe_read_csv(file), "session_id", session_id)

\* float addition: NaN absorbs
AddFloat(a, b) == IF a = NaN \/ b = NaN THEN NaN ELSE a + b

\* update_session_stats: the sessions file it leaves
update_session_stats(file, session_id, stake, expected_profit) ==
    LET df == safe_read_csv(file)
        hits == {i \in DOMAIN df : df[i].session_id = session_id}
    IN  IF df = <<>> \/ hits = {} THEN file
        ELSE LET idx == CHOOSE i \in hits : \A j \in hits : i <= j
             IN  safe_write_csv(
                     [df EXCEPT
                        ![idx].total_bets = @ + 1,
                        ![idx].total_stake = AddFloat(@, stake),
                        ![idx].total_expected_profit =
                            AddFloat(@, expected_profit)])

\* bet_data of one (outcome, stake) item of stake_calc['stakes']
BetData(bet_id, session_id, arbitrage_id, total_stake, arb, stake_calc, i, timestamp) ==
    LET outcome == stake_calc.stakes[i].outcome
        stake == stake_calc.stakes[i].stake
        \* NaN equals nothing, itself included
        odds == IF outcome # NaN /\ outcome = arb.outcome1 THEN arb.odds1
                ELSE IF outcome # NaN /\ outcome = arb.outcome2 THEN arb.odds2
                ELSE arb.odds3
        money == stake # NaN /\ odds # NaN
    IN  [bet_id |-> bet_id, session_id |-> session_id,
         arbitrage_id |-> arbitrage_id,
         bookmaker |-> stake_calc.bookmakers[i].bookmaker,
         outcome |-> outcome, stake |-> stake, odds |-> odds,
         expected_return |->
             IF money THEN RoundScaled(stake * odds, 100, 0) ELSE NaN,
         expected_profit |->
             IF money THEN RoundScaled(stake * odds - 100 * total_stake, 100, 0)
             ELSE NaN,
         timestamp |-> timestamp]

RECURSIVE AppendRows(_, _)
AppendRows(file, rows) ==
    IF rows = <<>> THEN file
    ELSE AppendRows(append_row(file, Head(rows)), Tail(rows))

\* place_bet: [ret, bets, sessions], the returned dict and the files it leaves
place_bet(session_id, arbitrage_id, total_stake, clock, firstId) ==
    LET session == get_session(sessions_csv, session_id)
        calc == calculate_stakes(arbitrage_csv, arbitrage_id, total_stake)
    IN  IF session = <<>>
        THEN [ret |-> [success |-> FALSE, error |-> "Invalid session ID",
                       bets |-> <<>>],
              bets |-> bets_csv, sessions |-> sessions_csv]
        ELSE IF calc = <<>>
        THEN [ret |-> [success |-> FALSE, error |-> "Invalid arbitrage ID",
                       bets |-> <<>>],
              bets |-> bets_csv, sessions |-> sessions_csv]
        ELSE
        LET stake_calc == calc[1]
            arb == get_arbitrage_by_id(arbitrage_csv, arbitrage_id)[1]
            placed_bets ==
                [i \in DOMAIN stake_calc.stakes |->
                    BetData(firstId + i - 1, session_id, arbitrage_id,
                            total_stake, arb, stake_calc, i, clock)]
        IN  [ret |-> [success |-> TRUE, error |-> "", bets |-> placed_bets],
             bets |-> AppendRows(bets_csv, placed_bets),
             sessions |-> update_session_stats(sessions_csv, session_id,
                              total_stake, stake_calc.expected_profit)]

\* POST /bets/place: the response.  FastAPI validates the body against
\* BetPlacement (session_id, opportunity_id, opportunity_type, total_stake > 0)
\* and answers 422 when it fails; the handler then reads
\* bet_data.arbitrage_id, a field BetPlacement does not have, which raises
\* AttributeError before BetService.place_bet is called: the response is 500
place_bet_route(session_id, opportunity_id, total_stake) ==
    IF total_stake <= 0
    THEN [status |-> 422, detail |-> "total_stake: greater_than 0"]
    ELSE [status |-> 500, detail |-> "Internal Server Error"]

(***************************************************************************)
(* Quote snapshots.                                                        *)
(***************************************************************************)
Quote(event_id, market, bookmaker, outcome, odds, is_active) ==
    [event_id |-> event_id, sport |-> 1, match |-> event_id,
     market |-> market, market_params |-> <<>>, bookmaker |-> bookmaker,
     outcome |-> outcome, odds |-> odds, is_active |-> is_active]

SeqsUpTo(S, n) == UNION {[1..k -> S] : k \in 0..n}

\* quotes of one two-way market priced by two bookmakers
LifecycleQuotes ==
    << Quote(1, 1, 1, 1, 210, TRUE), Quote(1, 1, 1, 1, 210, FALSE),
       Quote(1, 1, 2, 3, 210, TRUE), Quote(1, 1, 2, 3, 210, FALSE) >>

\* the rows of catalogue at the positions in picked, in catalogue order
RECURSIVE SubSequence(_, _)
SubSequence(catalogue, picked) ==
    IF catalogue = <<>> THEN <<>>
    ELSE LET n == Len(catalogue)
             front == SubSequence(SubSeq(catalogue, 1, n - 1), picked)
         IN  IF n \in picked THEN Append(front, catalogue[n]) ELSE front

\* the snapshots of at most n rows drawn from catalogue
Snapshots(catalogue, n) ==
    {SubSequence(catalogue, picked) :
        picked \in {P \in SUBSET DOMAIN catalogue : Cardinality(P) <= n}}

(***************************************************************************)
(* Actions: the clock, the quote supplier, and the service calls.          *)
(***************************************************************************)
\* no pair of calls is in progress.  base is the collection when the pair
\* was issued; the mark_ fields are the locals of mark_opportunity_as_used,
\* the cycle_ fields those of compute_all_opportunities and of the sweep it
\* calls
NothingInFlight ==
    [active |-> FALSE, base |-> NoFile, opportunity_id |-> 0,
     mark_pc |-> "done", mark_df |-> <<>>, mark_ret |-> FALSE,
     cycle_pc |-> "done", all_opportunities |-> <<>>, cycle_df |-> <<>>,
     cycle_ret |-> ZeroCounts]

Init ==
    /\ now = 0
    /\ odds_csv = NoFile
    /\ opportunities_csv = NoFile
    /\ arbitrage_csv = NoFile
    /\ sessions_csv = NoFile
    /\ bets_csv = NoFile
    /\ nextId = 1
    /\ inflight = NothingInFlight
    /\ result = [op |-> "init", arg |-> <<>>, ret |-> <<>>]

Tick ==
    /\ now < MaxTime
    /\ now' = now + 1
    /\ result' = [op |-> "tick", arg |-> <<>>, ret |-> <<>>]
    /\ UNCHANGED <<inflight, odds_csv, opportunities_csv, arbitrage_csv, sessions_csv,
                   bets_csv, nextId>>

\* the quote supplier replaces odds.csv by a new snapshot
SupplyQuotes ==
    \E snapshot \in Snapshots(LifecycleQuotes, MaxQuotes) :
        /\ odds_csv' = safe_write_csv(snapshot)
        /\ result' = [op |-> "supply_quotes", arg |-> <<>>, ret |-> <<>>]
        /\ UNCHANGED <<inflight, now, opportunities_csv, arbitrage_csv, sessions_csv,
                       bets_csv, nextId>>

\* OpportunityService.compute_all_opportunities
ComputeAllOpportunities ==
    /\ nextId <= MaxId
    /\ \E odds_df \in {safe_read_csv(odds_csv)} :
       IF odds_df = <<>>
       THEN /\ result' = [op |-> "compute_all_opportunities",
                          arg |-> <<>>, ret |-> ZeroCounts]
            /\ UNCHANGED <<inflight, opportunities_csv, nextId>>
       ELSE \E active \in {ActiveOdds(odds_df)} :
            \E arbitrage_opps \in {detect_arbitrage(active, now, nextId)} :
            IF detect_middles_raises(odds_df, active)
            THEN \* the exception leaves compute_all_opportunities: nothing
                 \* is swept or written
                 /\ result' = [op |-> "compute_all_opportunities",
                               arg |-> <<>>,
                               ret |-> [raised |-> "AttributeError"]]
                 /\ nextId' = nextId + Len(arbitrage_opps)
                 /\ UNCHANGED opportunities_csv
            ELSE
            \E middle_opps \in {detect_middles(active, now,
                                     nextId + Len(arbitrage_opps))} :
            \E ev_opps \in {detect_ev(active, now,
                                 nextId + Len(arbitrage_opps)
                                        + Len(middle_opps))} :
            \E low_opps \in {detect_lows(active, now,
                                  nextId + Len(arbitrage_opps)
                                         + Len(middle_opps) + Len(ev_opps))} :
            \E d \in {CycleDetections(arbitrage_opps, middle_opps,
                                      ev_opps, low_opps)} :
            \E all_opportunities \in {AllOpportunities(d)} :
                /\ opportunities_csv' =
                       WriteCycle(opportunities_csv, all_opportunities, now)
                /\ nextId' = nextId + Len(all_opportunities)
                /\ result' = [op |-> "compute_all_opportunities",
                              arg |-> <<>>, ret |-> Counts(d)]
    /\ UNCHANGED <<inflight, now, odds_csv, arbitrage_csv, sessions_csv, bets_csv>>

\* OpportunityService.mark_opportunity_as_used(opportunity_id); id 0 stands
\* for an id that was never issued
MarkOpportunityAsUsed ==
    \E opportunity_id \in 0..(nextId - 1) :
        LET r == mark_opportunity_as_used(opportunities_csv, opportunity_id)
        IN  /\ opportunities_csv' = r.file
            /\ result' = [op |-> "mark_opportunity_as_used",
                          arg |-> <<opportunity_id>>, ret |-> r.ret]
            /\ UNCHANGED <<inflight, now, odds_csv, arbitrage_csv, sessions_csv,
                           bets_csv, nextId>>

\* OpportunityService.get_opportunity_by_id(opportunity_id)
GetOpportunityById ==
    \E opportunity_id \in 0..(nextId - 1) :
        /\ result' = [op |-> "get_opportunity_by_id",
                      arg |-> <<opportunity_id>>,
                      ret |-> get_opportunity_by_id(opportunities_csv,
                                                    opportunity_id)]
        /\ UNCHANGED <<inflight, now, odds_csv, opportunities_csv, arbitrage_csv,
                       sessions_csv, bets_csv, nextId>>

\* DELETE /admin/reset: every data file but arbitrage.csv is rewritten with
\* its header only
ResetAllData ==
    /\ odds_csv' = safe_write_csv(<<>>)
    /\ opportunities_csv' = safe_write_csv(<<>>)
    /\ bets_csv' = safe_write_csv(<<>>)
    /\ sessions_csv' = safe_write_csv(<<>>)
    /\ result' = [op |-> "reset_all_data", arg |-> <<>>, ret |-> <<>>]
    /\ UNCHANGED <<inflight, now, arbitrage_csv, nextId>>

Next ==
    \/ Tick
    \/ SupplyQuotes
    \/ ComputeAllOpportunities
    \/ MarkOpportunityAsUsed
    \/ GetOpportunityById
    \/ ResetAllData

Spec == Init /\ [][Next]_vars

(***************************************************************************)
(* The bet-placement flow: quotes, the legacy arbitrage store, sessions,   *)
(* the stake calculator and bet placement.                                 *)
(***************************************************************************)
MaxSessions == 2    \* sessions created in a run
MaxBets == 1        \* successful bet placements in a run

\* a three-way market whose best prices form an arbitrage; every two of its
\* rows form a two-way arbitrage
BetQuotes ==
    << Quote(1, 1, 1, 1, 310, TRUE), Quote(1, 1, 2, 2, 320, TRUE),
       Quote(1, 1, 1, 3, 330, TRUE) >>

StakeAmounts == {5000, 10000}

SupplyBetQuotes ==
    \E snapshot \in Snapshots(BetQuotes, Len(BetQuotes)) :
        /\ odds_csv' = safe_write_csv(snapshot)
        /\ result' = [op |-> "supply_quotes", arg |-> <<>>, ret |-> <<>>]
        /\ UNCHANGED <<inflight, now, opportunities_csv, arbitrage_csv, sessions_csv,
                       bets_csv, nextId>>

\* ArbitrageService.compute_arbitrage
ComputeArbitrage ==
    /\ nextId <= MaxId
    /\ LET odds_df == safe_read_csv(odds_csv)
           arbitrage_opportunities == compute_arbitrage(odds_df, now, nextId)
       IN  /\ arbitrage_csv' =
                  IF arbitrage_opportunities # <<>>
                  THEN safe_write_csv(arbitrage_opportunities)
                  ELSE arbitrage_csv
           /\ nextId' = nextId + Len(arbitrage_opportunities)
           /\ result' = [op |-> "compute_arbitrage", arg |-> <<>>,
                         ret |-> Len(arbitrage_opportunities)]
    /\ UNCHANGED <<inflight, now, odds_csv, opportunities_csv, sessions_csv, bets_csv>>

\* ArbitrageService.get_arbitrage_by_id(arb_id)
GetArbitrageById ==
    \E arb_id \in 0..(nextId - 1) :
        /\ result' = [op |-> "get_arbitrage_by_id", arg |-> <<arb_id>>,
                      ret |-> get_arbitrage_by_id(arbitrage_csv, arb_id)]
        /\ UNCHANGED <<inflight, now, odds_csv, opportunities_csv, arbitrage_csv,
                       sessions_csv, bets_csv, nextId>>

\* ArbitrageService.calculate_stakes(arb_id, total_stake)
CalculateStakes ==
    \E arb_id \in 0..(nextId - 1), total_stake \in StakeAmounts :
        /\ result' = [op |-> "calculate_stakes",
                      arg |-> <<arb_id, total_stake>>,
                      ret |-> calculate_stakes(arbitrage_csv, arb_id,
                                               total_stake)]
        /\ UNCHANGED <<inflight, now, odds_csv, opportunities_csv, arbitrage_csv,
                       sessions_csv, bets_csv, nextId>>

\* SessionService.create_session
CreateSession ==
    /\ nextId <= MaxId + MaxSessions
    /\ Len(safe_read_csv(sessions_csv)) < MaxSessions
    /\ sessions_csv' = append_row(sessions_csv,
                           [session_id |-> nextId, created_at |-> now,
                            total_bets |-> 0, total_stake |-> 0,
                            total_expected_profit |-> 0])
    /\ nextId' = nextId + 1
    /\ result' = [op |-> "create_session", arg |-> <<>>, ret |-> nextId]
    /\ UNCHANGED <<inflight, now, odds_csv, opportunities_csv, arbitrage_csv, bets_csv>>

\* BetService.place_bet(session_id, arbitrage_id, total_stake)
PlaceBet ==
    /\ Len(safe_read_csv(bets_csv)) < MaxBets
    /\ \E session_id \in 0..(nextId - 1), arbitrage_id \in 0..(nextId - 1),
          total_stake \in StakeAmounts :
        LET r == place_bet(session_id, arbitrage_id, total_stake, now, nextId)
        IN  /\ bets_csv' = r.bets
            /\ sessions_csv' = r.sessions
            /\ nextId' = nextId + Len(r.ret.bets)
            /\ result' = [op |-> "place_bet",
                          arg |-> <<session_id, arbitrage_id, total_stake>>,
                          ret |-> r.ret]
    /\ UNCHANGED <<inflight, now, odds_csv, opportunities_csv, arbitrage_csv>>

NextBet ==
    \/ SupplyBetQuotes
    \/ ComputeArbitrage
    \/ ComputeAllOpportunities
    \/ GetArbitrageById
    \/ CalculateStakes
    \/ CreateSession
    \/ PlaceBet
    \/ GetOpportunityById

SpecBet == Init /\ [][NextBet]_vars

\* the lookups by id, over the stores the two compute operations fill
NextLookup ==
    \/ SupplyBetQuotes
    \/ ComputeArbitrage
    \/ ComputeAllOpportunities
    \/ GetArbitrageById
    \/ CalculateStakes
    \/ GetOpportunityById

SpecLookup == Init /\ [][NextLookup]_vars

\* bet placement with stakes that are and are not positive, through the
\* service and through the route
AnyStakeAmounts == {0, 5000}
RequestStakes == {0 - 5000, 0, 5000}

\* BetService.place_bet(session_id, arbitrage_id, total_stake)
PlaceBetOfAnyStake ==
    /\ Len(safe_read_csv(bets_csv)) < MaxBets
    /\ \E session_id \in 0..(nextId - 1), arbitrage_id \in 0..(nextId - 1),
          total_stake \in AnyStakeAmounts :
        LET r == place_bet(session_id, arbitrage_id, total_stake, now, nextId)
        IN  /\ bets_csv' = r.bets
            /\ sessions_csv' = r.sessions
            /\ nextId' = nextId + Len(r.ret.bets)
            /\ result' = [op |-> "place_bet",
                          arg |-> <<session_id, arbitrage_id, total_stake>>,
                          ret |-> r.ret]
    /\ UNCHANGED <<inflight, now, odds_csv, opportunities_csv, arbitrage_csv>>

\* POST /bets/place with a body that names a session, an opportunity and a
\* stake
PlaceBetRequest ==
    /\ \E session_id \in 0..(nextId - 1), opportunity_id \in 0..(nextId - 1),
          total_stake \in RequestStakes :
           result' = [op |-> "POST /bets/place",
                      arg |-> <<session_id, opportunity_id, total_stake>>,
                      ret |-> place_bet_route(session_id, opportunity_id,
                                              total_stake)]
    /\ UNCHANGED <<inflight, now, odds_csv, opportunities_csv, arbitrage_csv,
                   sessions_csv, bets_csv, nextId>>

NextPlace ==
    \/ SupplyBetQuotes
    \/ ComputeArbitrage
    \/ CreateSession
    \/ PlaceBetOfAnyStake
    \/ PlaceBetRequest

SpecPlace == Init /\ [][NextPlace]_vars

(***************************************************************************)
(* The detectors as functions of a quote snapshot: each run starts from a  *)
(* snapshot held by odds.csv and applies one detector to it.               *)
(***************************************************************************)
MaxArbRows == 3     \* rows of a snapshot given to detect_arbitrage
MaxEvRows == 4      \* rows of a snapshot given to detect_ev
MaxLowRows == 3     \* rows of a snapshot given to detect_lows

\* the state once odds.csv holds snapshot and nothing else has happened
InitWith(snapshot) ==
    /\ now = 0
    /\ odds_csv = safe_write_csv(snapshot)
    /\ opportunities_csv = NoFile
    /\ arbitrage_csv = NoFile
    /\ sessions_csv = NoFile
    /\ bets_csv = NoFile
    /\ nextId = 1
    /\ inflight = NothingInFlight
    /\ result = [op |-> "init", arg |-> <<>>, ret |-> <<>>]

\* quotes of two markets of one event, up to three outcomes; each bookmaker
\* quotes one price and is named after it
ArbOdds == {173, 237, 310}
ArbRows ==
    {Quote(1, market, odds, outcome, odds, TRUE) :
        market \in {1, 2}, outcome \in {1, 2, 3}, odds \in ArbOdds}

InitArb == \E snapshot \in SeqsUpTo(ArbRows, MaxArbRows) : InitWith(snapshot)

\* DetectionService.detect_arbitrage on the rows of odds.csv
DetectArbitrage ==
    /\ nextId <= MaxId
    /\ \E odds_df \in {safe_read_csv(odds_csv)} :
       \E opportunities \in {detect_arbitrage(odds_df, now, nextId)} :
           /\ nextId' = nextId + Len(opportunities)
           /\ result' = [op |-> "detect_arbitrage", arg |-> <<odds_df>>,
                         ret |-> opportunities]
    /\ UNCHANGED <<inflight, now, odds_csv, opportunities_csv, arbitrage_csv,
                   sessions_csv, bets_csv>>

SpecArb == InitArb /\ [][DetectArbitrage]_vars

\* quotes of two outcomes of one market; each bookmaker quotes one price
\* and is named after it
EvOdds == {188, 190, 195, 205}
EvRows ==
    {Quote(1, 1, odds, outcome, odds, TRUE) :
        outcome \in {1, 3}, odds \in EvOdds}

InitEv == \E snapshot \in SeqsUpTo(EvRows, MaxEvRows) : InitWith(snapshot)

\* DetectionService.detect_ev on the rows of odds.csv
DetectEv ==
    /\ nextId <= MaxId
    /\ \E odds_df \in {safe_read_csv(odds_csv)} :
       \E opportunities \in {detect_ev(odds_df, now, nextId)} :
           /\ nextId' = nextId + Len(opportunities)
           /\ result' = [op |-> "detect_ev", arg |-> <<odds_df>>,
                         ret |-> opportunities]
    /\ UNCHANGED <<inflight, now, odds_csv, opportunities_csv, arbitrage_csv,
                   sessions_csv, bets_csv>>

SpecEv == InitEv /\ [][DetectEv]_vars

\* quotes of one market by two bookmakers, up to three outcomes
LowOdds == {190, 195, 200, 400}
LowRows ==
    {Quote(1, 1, bookmaker, outcome, odds, TRUE) :
        bookmaker \in {1, 2}, outcome \in {1, 2, 3}, odds \in LowOdds}

InitLow == \E snapshot \in SeqsUpTo(LowRows, MaxLowRows) : InitWith(snapshot)

\* DetectionService.detect_lows on the rows of odds.csv
DetectLows ==
    /\ nextId <= MaxId
    /\ \E odds_df \in {safe_read_csv(odds_csv)} :
       \E opportunities \in {detect_lows(odds_df, now, nextId)} :
           /\ nextId' = nextId + Len(opportunities)
           /\ result' = [op |-> "detect_lows", arg |-> <<odds_df>>,
                         ret |-> opportunities]
    /\ UNCHANGED <<inflight, now, odds_csv, opportunities_csv, arbitrage_csv,
                   sessions_csv, bets_csv>>

SpecLow == InitLow /\ [][DetectLows]_vars

(***************************************************************************)
(* detect_middles and _extract_lines on snapshots of line and non-line     *)
(* markets: labels without a number, with one number and with two runs of  *)
(* digits, and a row whose market_params carries the line                  *)
(***************************************************************************)
MaxMidRows == 3

\* a quote whose market_params cell holds text
QuoteWithParams(market, bookmaker, outcome, text) ==
    [Quote(1, market, bookmaker, outcome, 185 + 5 * bookmaker, TRUE)
        EXCEPT !.market_params = <<text>>]

\* Match Winner and Total rows with a label of one number, Total rows without
\* any, and every kind of row in the spread market
MidRows ==
    {Quote(1, market, bookmaker, outcome, 185 + 5 * bookmaker, TRUE) :
        market \in {1, 2, 3}, bookmaker \in {1, 2}, outcome \in {4, 6}}
    \cup {Quote(1, market, bookmaker, 1, 185 + 5 * bookmaker, TRUE) :
              market \in {2, 3}, bookmaker \in {1, 2}}
    \cup {Quote(1, 3, bookmaker, 5, 185 + 5 * bookmaker, TRUE) :
              bookmaker \in {1, 2}}
    \cup {QuoteWithParams(3, bookmaker, 4, <<"3",".","0">>) :
              bookmaker \in {1, 2}}

InitMid == \E snapshot \in SeqsUpTo(MidRows, MaxMidRows) : InitWith(snapshot)

\* DetectionService.detect_middles(odds_df) on the stored snapshot
DetectMiddles ==
    /\ nextId <= MaxId
    /\ \E odds_df \in {safe_read_csv(odds_csv)} :
       \E opportunities \in {detect_middles(odds_df, now, nextId)} :
           /\ nextId' = nextId + Len(opportunities)
           /\ result' = [op |-> "detect_middles", arg |-> <<odds_df>>,
                         ret |-> opportunities]
    /\ UNCHANGED <<inflight, now, odds_csv, opportunities_csv, arbitrage_csv,
                   sessions_csv, bets_csv>>

SpecMid == InitMid /\ [][DetectMiddles]_vars

\* DetectionService._extract_lines(row1, row2) on two rows of the snapshot
ExtractLines ==
    /\ \E odds_df \in {safe_read_csv(odds_csv)} :
       \E i, j \in DOMAIN odds_df :
           result' = [op |-> "_extract_lines",
                      arg |-> <<odds_df[i], odds_df[j]>>,
                      ret |-> extract_lines(odds_df[i], odds_df[j])]
    /\ UNCHANGED <<inflight, now, odds_csv, opportunities_csv, arbitrage_csv,
                   sessions_csv, bets_csv, nextId>>

SpecLines == InitMid /\ [][ExtractLines]_vars

(***************************************************************************)
(* The opportunities feed: cycles over snapshots that yield an arbitrage,  *)
(* a middle at short odds and low-hold entries of equal roi, followed by   *)
(* sweeps, removals and queries                                            *)
(***************************************************************************)
MaxFeedQuotes == 3

\* a Match Winner market at 2.10 with two bookmakers, and a Total market
\* whose two bookmakers quote different lines at 1.30
FeedQuotes ==
    << Quote(1, 1, 1, 1, 210, TRUE), Quote(1, 1, 2, 3, 210, TRUE),
       Quote(1, 2, 1, 4, 130, TRUE), Quote(1, 2, 2, 6, 130, TRUE) >>

InitFeed ==
    \E snapshot \in Snapshots(FeedQuotes, MaxFeedQuotes) : InitWith(snapshot)

\* the query parameters GET /opportunities/feed passes on
Categories == {"", "low"}
Sports == {<<>>, <<"F","O","O","T","B","A","L","L">>, <<"G","o","l","f">>}
MinRois == {0, 1500}
MinProfits == {0, 100}
TopNs == {2, 100}
Statuses == {"active", "removed"}

\* OpportunityService.get_opportunities as the feed route calls it
GetOpportunities ==
    /\ \E category \in Categories, sport \in Sports, min_roi \in MinRois,
          min_profit \in MinProfits, top_n \in TopNs, status \in Statuses :
       \E ret \in get_opportunities(opportunities_csv, category, sport,
                                    min_roi, min_profit, top_n, status) :
           result' = [op |-> "get_opportunities",
                      arg |-> <<category, sport, min_roi, min_profit, top_n,
                                status>>,
                      ret |-> ret]
    /\ UNCHANGED <<inflight, now, odds_csv, opportunities_csv, arbitrage_csv,
                   sessions_csv, bets_csv, nextId>>

NextFeed ==
    \/ ComputeAllOpportunities
    \/ MarkOpportunityAsUsed
    \/ GetOpportunities

SpecFeed == InitFeed /\ [][NextFeed]_vars

\* compute cycles over one unchanging snapshot, with the clock
InitCycle ==
    \E snapshot \in Snapshots(FeedQuotes, MaxFeedQuotes) : InitWith(snapshot)

NextCycle ==
    \/ ComputeAllOpportunities
    \/ Tick

SpecCycle == InitCycle /\ [][NextCycle]_vars

(***************************************************************************)
(* A compute cycle and a mark-removed call in progress at once, as two     *)
(* server processes over one data directory run them.  csv_io locks the    *)
(* file for the length of one read or one write; a step below is one such  *)
(* read or write together with the computation that follows it.            *)
(***************************************************************************)
\* the rows _cleanup_expired_opportunities writes back
SweptRows(df, clock) ==
    [i \in DOMAIN df |->
        IF is_expired(df[i].expires_at, clock)
        THEN [df[i] EXCEPT !.status = "expired"]
        ELSE df[i]]

InitConc ==
    \E snapshot \in Snapshots(LifecycleQuotes, MaxQuotes) : InitWith(snapshot)

\* both calls of the last pair have returned
PairDone == inflight.mark_pc = "done" /\ inflight.cycle_pc = "done"

\* two requests arrive together: mark_opportunity_as_used(opportunity_id)
\* and compute_all_opportunities()
IssueBoth ==
    /\ PairDone
    /\ nextId <= MaxId
    /\ \E opportunity_id \in 0..(nextId - 1) :
           /\ inflight' = [NothingInFlight EXCEPT
                              !.active = TRUE,
                              !.base = opportunities_csv,
                              !.opportunity_id = opportunity_id,
                              !.mark_pc = "read",
                              !.cycle_pc = "detect"]
           /\ result' = [op |-> "issue_both", arg |-> <<opportunity_id>>,
                         ret |-> <<>>]
    /\ UNCHANGED <<now, odds_csv, opportunities_csv, arbitrage_csv,
                   sessions_csv, bets_csv, nextId>>

\* mark_opportunity_as_used up to its write: the read and the change of the
\* status in memory
MarkRead ==
    /\ inflight.mark_pc = "read"
    /\ LET df == safe_read_csv(opportunities_csv)
           hits == {i \in DOMAIN df : df[i].id = inflight.opportunity_id}
       IN  IF df = <<>> \/ hits = {}
           THEN /\ inflight' = [inflight EXCEPT !.mark_pc = "done",
                                                !.mark_ret = FALSE]
                /\ result' = [op |-> "mark_opportunity_as_used",
                              arg |-> <<inflight.opportunity_id>>,
                              ret |-> FALSE]
           ELSE LET idx == CHOOSE i \in hits : \A j \in hits : i <= j
                IN  /\ inflight' =
                           [inflight EXCEPT
                               !.mark_pc = "write",
                               !.mark_df = [df EXCEPT ![idx].status = "removed"]]
                    /\ result' = [op |-> "mark_opportunity_as_used.read",
                                  arg |-> <<inflight.opportunity_id>>,
                                  ret |-> <<>>]
    /\ UNCHANGED <<now, odds_csv, opportunities_csv, arbitrage_csv,
                   sessions_csv, bets_csv, nextId>>

\* its safe_write_csv and return
MarkWrite ==
    /\ inflight.mark_pc = "write"
    /\ opportunities_csv' = safe_write_csv(inflight.mark_df)
    /\ inflight' = [inflight EXCEPT !.mark_pc = "done", !.mark_ret = TRUE]
    /\ result' = [op |-> "mark_opportunity_as_used",
                  arg |-> <<inflight.opportunity_id>>, ret |-> TRUE]
    /\ UNCHANGED <<now, odds_csv, arbitrage_csv, sessions_csv, bets_csv,
                   nextId>>

\* compute_all_opportunities up to the sweep: the read of odds.csv, the four
\* detectors and the unified rows
CycleDetect ==
    /\ inflight.cycle_pc = "detect"
    /\ \E odds_df \in {safe_read_csv(odds_csv)} :
       IF odds_df = <<>>
       THEN /\ inflight' = [inflight EXCEPT !.cycle_pc = "done"]
            /\ result' = [op |-> "compute_all_opportunities",
                          arg |-> <<>>, ret |-> ZeroCounts]
            /\ UNCHANGED nextId
       ELSE \E active \in {ActiveOdds(odds_df)} :
            \E arbitrage_opps \in {detect_arbitrage(active, now, nextId)} :
            \E middle_opps \in {detect_middles(active, now,
                                     nextId + Len(arbitrage_opps))} :
            \E ev_opps \in {detect_ev(active, now,
                                 nextId + Len(arbitrage_opps)
                                        + Len(middle_opps))} :
            \E low_opps \in {detect_lows(active, now,
                                  nextId + Len(arbitrage_opps)
                                         + Len(middle_opps) + Len(ev_opps))} :
            \E d \in {CycleDetections(arbitrage_opps, middle_opps,
                                      ev_opps, low_opps)} :
            \E all_opportunities \in {AllOpportunities(d)} :
                /\ inflight' = [inflight EXCEPT
                                   !.cycle_pc = "sweep_read",
                                   !.all_opportunities = all_opportunities,
                                   !.cycle_ret = Counts(d)]
                /\ nextId' = nextId + Len(all_opportunities)
                /\ result' = [op |-> "compute_all_opportunities.detect",
                              arg |-> <<>>, ret |-> <<>>]
    /\ UNCHANGED <<now, odds_csv, opportunities_csv, arbitrage_csv,
                   sessions_csv, bets_csv>>

\* the read of _cleanup_expired_opportunities and the expiry of the rows in
\* memory; an empty collection is not written back
CycleSweepRead ==
    /\ inflight.cycle_pc = "sweep_read"
    /\ LET df == safe_read_csv(opportunities_csv)
       IN  inflight' =
               IF df = <<>>
               THEN [inflight EXCEPT !.cycle_pc = "write"]
               ELSE [inflight EXCEPT !.cycle_pc = "sweep_write",
                                     !.cycle_df = SweptRows(df, now)]
    /\ result' = [op |-> "compute_all_opportunities.sweep_read",
                  arg |-> <<>>, ret |-> <<>>]
    /\ UNCHANGED <<now, odds_csv, opportunities_csv, arbitrage_csv,
                   sessions_csv, bets_csv, nextId>>

\* the write of _cleanup_expired_opportunities
CycleSweepWrite ==
    /\ inflight.cycle_pc = "sweep_write"
    /\ opportunities_csv' = safe_write_csv(inflight.cycle_df)
    /\ inflight' = [inflight EXCEPT !.cycle_pc = "write"]
    /\ result' = [op |-> "compute_all_opportunities.sweep_write",
                  arg |-> <<>>, ret |-> <<>>]
    /\ UNCHANGED <<now, odds_csv, arbitrage_csv, sessions_csv, bets_csv,
                   nextId>>

\* the write of the new rows, if any, and the return of the counts
CycleWrite ==
    /\ inflight.cycle_pc = "write"
    /\ opportunities_csv' =
           IF inflight.all_opportunities # <<>>
           THEN safe_write_csv(inflight.all_opportunities)
           ELSE opportunities_csv
    /\ inflight' = [inflight EXCEPT !.cycle_pc = "done"]
    /\ result' = [op |-> "compute_all_opportunities", arg |-> <<>>,
                  ret |-> inflight.cycle_ret]
    /\ UNCHANGED <<now, odds_csv, arbitrage_csv, sessions_csv, bets_csv,
                   nextId>>

\* single calls and the clock come before the first pair
NextConc ==
    \/ (~inflight.active /\ ComputeAllOpportunities)
    \/ (~inflight.active /\ Tick)
    \/ IssueBoth
    \/ MarkRead
    \/ MarkWrite
    \/ CycleDetect
    \/ CycleSweepRead
    \/ CycleSweepWrite
    \/ CycleWrite

SpecConc == InitConc /\ [][NextConc]_vars

(***************************************************************************)
(* Compute cycles over snapshots whose market column holds market numbers, *)
(* market names, or both                                                   *)
(***************************************************************************)
\* a two-way market under the market number 12 and under a name
IsolationQuotes ==
    << Quote(1, 0, 1, 1, 210, TRUE), Quote(1, 0, 2, 3, 210, TRUE),
       Quote(1, 1, 1, 1, 210, TRUE), Quote(1, 1, 2, 3, 210, TRUE) >>

InitIsolation ==
    \E snapshot \in Snapshots(IsolationQuotes, MaxFeedQuotes) :
        InitWith(snapshot)

NextIsolation ==
    \/ ComputeAllOpportunities
    \/ MarkOpportunityAsUsed
    \/ Tick

SpecIsolation == InitIsolation /\ [][NextIsolation]_vars

(***************************************************************************)
(* The same calls when the file system fails.  pd.read_csv or open can     *)
(* raise inside safe_read_csv, which then prints the error and returns an  *)
(* empty DataFrame; to_csv or replace can raise inside safe_write_csv,     *)
(* which then prints the error, leaves the file as it was and returns      *)
(* False.  read_ok and write_ok say whether the reads and the writes of    *)
(* one call succeed.                                                       *)
(***************************************************************************)
\* safe_read_csv when the read may fail
safe_read_csv_or_fail(file, read_ok) ==
    IF read_ok THEN safe_read_csv(file) ELSE <<>>

\* the file after safe_write_csv(df) when the write may fail
safe_write_csv_or_fail(file, df, write_ok) ==
    IF write_ok THEN safe_write_csv(df) ELSE file

\* mark_opportunity_as_used: [ret, file]; the value safe_write_csv returns is
\* not looked at
mark_opportunity_as_used_or_fail(file, opportunity_id, read_ok, write_ok) ==
    LET df == safe_read_csv_or_fail(file, read_ok)
        hits == {i \in DOMAIN df : df[i].id = opportunity_id}
    IN  IF df = <<>> \/ hits = {}
        THEN [ret |-> FALSE, file |-> file]
        ELSE LET idx == CHOOSE i \in hits : \A j \in hits : i <= j
             IN  [ret |-> TRUE,
                  file |-> safe_write_csv_or_fail(
                               file, [df EXCEPT ![idx].status = "removed"],
                               write_ok)]

\* _cleanup_expired_opportunities followed by the write of the new rows
WriteCycleOrFail(file, all_opportunities, clock, read_ok, write_ok) ==
    LET df == safe_read_csv_or_fail(file, read_ok)
        swept == IF df = <<>> THEN file
                 ELSE safe_write_csv_or_fail(file, SweptRows(df, clock),
                                             write_ok)
    IN  IF all_opportunities # <<>>
        THEN safe_write_csv_or_fail(swept, all_opportunities, write_ok)
        ELSE swept

InitFault ==
    \E snapshot \in Snapshots(LifecycleQuotes, MaxQuotes) : InitWith(snapshot)

\* OpportunityService.compute_all_opportunities; the counts are returned
\* whatever safe_write_csv returned
ComputeAllOpportunitiesOrFail ==
    /\ nextId <= MaxId
    /\ \E read_ok \in BOOLEAN, write_ok \in BOOLEAN :
       \E odds_df \in {safe_read_csv_or_fail(odds_csv, read_ok)} :
       IF odds_df = <<>>
       THEN /\ result' = [op |-> "compute_all_opportunities",
                          arg |-> <<read_ok, write_ok>>, ret |-> ZeroCounts]
            /\ UNCHANGED <<opportunities_csv, nextId>>
       ELSE \E active \in {ActiveOdds(odds_df)} :
            \E arbitrage_opps \in {detect_arbitrage(active, now, nextId)} :
            \E middle_opps \in {detect_middles(active, now,
                                     nextId + Len(arbitrage_opps))} :
            \E ev_opps \in {detect_ev(active, now,
                                 nextId + Len(arbitrage_opps)
                                        + Len(middle_opps))} :
            \E low_opps \in {detect_lows(active, now,
                                  nextId + Len(arbitrage_opps)
                                         + Len(middle_opps) + Len(ev_opps))} :
            \E d \in {CycleDetections(arbitrage_opps, middle_opps,
                                      ev_opps, low_opps)} :
            \E all_opportunities \in {AllOpportunities(d)} :
                /\ opportunities_csv' =
                       WriteCycleOrFail(opportunities_csv, all_opportunities,
                                        now, read_ok, write_ok)
                /\ nextId' = nextId + Len(all_opportunities)
                /\ result' = [op |-> "compute_all_opportunities",
                              arg |-> <<read_ok, write_ok>>,
                              ret |-> Counts(d)]
    /\ UNCHANGED <<inflight, now, odds_csv, arbitrage_csv, sessions_csv,
                   bets_csv>>

\* OpportunityService.mark_opportunity_as_used(opportunity_id)
MarkOpportunityAsUsedOrFail ==
    \E opportunity_id \in 0..(nextId - 1), read_ok \in BOOLEAN,
       write_ok \in BOOLEAN :
        LET r == mark_opportunity_as_used_or_fail(opportunities_csv,
                     opportunity_id, read_ok, write_ok)
        IN  /\ opportunities_csv' = r.file
            /\ result' = [op |-> "mark_opportunity_as_used",
                          arg |-> <<opportunity_id, read_ok, write_ok>>,
                          ret |-> r.ret]
            /\ UNCHANGED <<inflight, now, odds_csv, arbitrage_csv,
                           sessions_csv, bets_csv, nextId>>

NextFault ==
    \/ ComputeAllOpportunitiesOrFail
    \/ MarkOpportunityAsUsedOrFail
    \/ Tick

SpecFault == InitFault /\ [][NextFault]_vars

(***************************************************************************)
(* safe_write_csv in mode 'w', one file operation at a time: the temporary *)
(* file is opened, to_csv writes the header and the rows into it, and the  *)
(* temporary file replaces the file.  Any of these can raise; the except   *)
(* branch then unlinks the temporary file and returns False.  Readers run  *)
(* in between.  The write followed here is the one                         *)
(* mark_opportunity_as_used makes.                                         *)
(***************************************************************************)
\* no write in progress.  base is the file when the write was called, df the
\* DataFrame to write, temp the file at temp_path, failed_at the operation
\* that raised and written the rows the temporary file held by then
WriterIdle ==
    [write_pc |-> "idle", base |-> NoFile, df |-> <<>>, temp |-> NoFile,
     failed_at |-> "", written |-> 0]

\* a variant of open_temp that opens the file itself for writing, which
\* empties it
open_in_place(full, temp) ==
    [full |-> safe_write_csv(<<>>), temp |-> safe_write_csv(<<>>)]

\* open(temp_path, 'w'): the temporary file is created empty
open_temp(full, temp) == [full |-> full, temp |-> safe_write_csv(<<>>)]

\* df.to_csv(f, index=False, header=True), as far as one more row
to_csv_row(full, temp, row) ==
    [full |-> full, temp |-> safe_write_csv(Append(temp.rows, row))]

\* temp_path.replace(full_path)
replace_file(full, temp) == [full |-> temp, temp |-> NoFile]

\* temp_path.unlink(missing_ok=True)
unlink_temp(full, temp) == [full |-> full, temp |-> NoFile]

InitWrite ==
    /\ now = 0
    /\ odds_csv \in {safe_write_csv(snapshot) :
                       snapshot \in Snapshots(FeedQuotes, MaxFeedQuotes)}
    /\ opportunities_csv = NoFile
    /\ arbitrage_csv = NoFile
    /\ sessions_csv = NoFile
    /\ bets_csv = NoFile
    /\ nextId = 1
    /\ inflight = WriterIdle
    /\ result = [op |-> "init", arg |-> <<>>, ret |-> <<>>]

\* mark_opportunity_as_used(opportunity_id) up to its call of safe_write_csv
MarkCallsWrite ==
    /\ inflight.write_pc = "idle"
    /\ \E opportunity_id \in 0..(nextId - 1) :
       LET df == safe_read_csv(opportunities_csv)
           hits == {i \in DOMAIN df : df[i].id = opportunity_id}
       IN  IF df = <<>> \/ hits = {}
           THEN /\ result' = [op |-> "mark_opportunity_as_used",
                              arg |-> <<opportunity_id>>, ret |-> FALSE]
                /\ UNCHANGED inflight
           ELSE LET idx == CHOOSE i \in hits : \A j \in hits : i <= j
                IN  /\ inflight' =
                           [WriterIdle EXCEPT
                               !.write_pc = "open",
                               !.base = opportunities_csv,
                               !.df = [df EXCEPT ![idx].status = "removed"]]
                    /\ result' = [op |-> "mark_opportunity_as_used.read",
                                  arg |-> <<opportunity_id>>, ret |-> <<>>]
    /\ UNCHANGED <<now, odds_csv, opportunities_csv, arbitrage_csv,
                   sessions_csv, bets_csv, nextId>>

\* line 42: the temporary file is opened, or open raises
WriteOpen ==
    /\ inflight.write_pc = "open"
    /\ \E ok \in BOOLEAN :
       IF ok
       THEN LET disk == open_temp(opportunities_csv, inflight.temp)
            IN  /\ opportunities_csv' = disk.full
                /\ inflight' = [inflight EXCEPT !.write_pc = "to_csv",
                                                !.temp = disk.temp]
       ELSE /\ inflight' = [inflight EXCEPT !.write_pc = "except",
                                            !.failed_at = "open"]
            /\ UNCHANGED opportunities_csv
    /\ result' = [op |-> "safe_write_csv.open", arg |-> <<>>, ret |-> <<>>]
    /\ UNCHANGED <<now, odds_csv, arbitrage_csv, sessions_csv, bets_csv,
                   nextId>>

\* line 44: to_csv writes the next row, or raises
WriteToCsv ==
    /\ inflight.write_pc = "to_csv"
    /\ Len(inflight.temp.rows) < Len(inflight.df)
    /\ \E ok \in BOOLEAN :
       IF ok
       THEN LET disk == to_csv_row(opportunities_csv, inflight.temp,
                            inflight.df[Len(inflight.temp.rows) + 1])
            IN  /\ opportunities_csv' = disk.full
                /\ inflight' = [inflight EXCEPT !.temp = disk.temp]
       ELSE /\ inflight' = [inflight EXCEPT !.write_pc = "except",
                                            !.failed_at = "to_csv",
                                            !.written = Len(inflight.temp.rows)]
            /\ UNCHANGED opportunities_csv
    /\ result' = [op |-> "safe_write_csv.to_csv", arg |-> <<>>, ret |-> <<>>]
    /\ UNCHANGED <<now, odds_csv, arbitrage_csv, sessions_csv, bets_csv,
                   nextId>>

\* lines 48-49 and 63: the temporary file replaces the file and True is
\* returned, or replace raises
WriteReplace ==
    /\ inflight.write_pc = "to_csv"
    /\ Len(inflight.temp.rows) = Len(inflight.df)
    /\ \E ok \in BOOLEAN :
       IF ok
       THEN LET disk == replace_file(opportunities_csv, inflight.temp)
            IN  /\ opportunities_csv' = disk.full
                /\ inflight' = [inflight EXCEPT !.write_pc = "idle",
                                                !.temp = disk.temp]
                /\ result' = [op |-> "safe_write_csv", arg |-> <<>>,
                              ret |-> TRUE]
       ELSE /\ inflight' = [inflight EXCEPT !.write_pc = "except",
                                            !.failed_at = "replace"]
            /\ result' = [op |-> "safe_write_csv.replace", arg |-> <<>>,
                          ret |-> <<>>]
            /\ UNCHANGED opportunities_csv
    /\ UNCHANGED <<now, odds_csv, arbitrage_csv, sessions_csv, bets_csv,
                   nextId>>

\* lines 64-67: the except branch
WriteExcept ==
    /\ inflight.write_pc = "except"
    /\ LET disk == unlink_temp(opportunities_csv, inflight.temp)
       IN  /\ opportunities_csv' = disk.full
           /\ inflight' = [inflight EXCEPT !.write_pc = "idle",
                                           !.temp = disk.temp]
    /\ result' = [op |-> "safe_write_csv", arg |-> <<>>, ret |-> FALSE]
    /\ UNCHANGED <<now, odds_csv, arbitrage_csv, sessions_csv, bets_csv,
                   nextId>>

\* safe_read_csv("opportunities.csv") by any reader, at any moment
ReadOpportunities ==
    /\ result' = [op |-> "safe_read_csv", arg |-> <<>>,
                  ret |-> safe_read_csv(opportunities_csv)]
    /\ UNCHANGED <<inflight, now, odds_csv, opportunities_csv, arbitrage_csv,
                   sessions_csv, bets_csv, nextId>>

NextWrite ==
    \/ (inflight.write_pc = "idle" /\ ComputeAllOpportunities)
    \/ MarkCallsWrite
    \/ WriteOpen
    \/ WriteToCsv
    \/ WriteReplace
    \/ WriteExcept
    \/ ReadOpportunities

SpecWrite == InitWrite /\ [][NextWrite]_vars

(***************************************************************************)
(* The compute cycle with every reading of the clock on its own.  Each     *)
(* detector calls datetime.now() twice, once for timestamp and once for    *)
(* expires_at, and the sweep calls it once more; the clock may move on     *)
(* between any two readings.                                               *)
(***************************************************************************)
\* the readings of the clock one cycle makes, from first on: two for each
\* of the four detectors and one for the sweep, none earlier than the one
\* before it
ClockReadings == 9
ClockReads(first) ==
    {r \in [1..ClockReadings -> first..Min(first + 1, MaxTime)] :
        \A i \in 1..(ClockReadings - 1) : r[i] <= r[i + 1]}

\* the records of one detector when expires_at comes from a second reading
\* of the clock: (datetime.now() + timedelta(hours=2)).isoformat()
StampExpiry(opps, second) ==
    [i \in DOMAIN opps |-> [opps[i] EXCEPT !.expires_at = second + EXPIRY_HOURS]]

\* OpportunityService.compute_all_opportunities
ComputeAllOpportunitiesByTheClock ==
    /\ nextId <= MaxId
    /\ \E odds_df \in {safe_read_csv(odds_csv)} :
       IF odds_df = <<>>
       THEN /\ result' = [op |-> "compute_all_opportunities",
                          arg |-> <<>>, ret |-> ZeroCounts]
            /\ UNCHANGED <<now, opportunities_csv, nextId>>
       ELSE \E r \in ClockReads(now) :
            \E active \in {ActiveOdds(odds_df)} :
            \E arbitrage_opps \in
                {StampExpiry(detect_arbitrage(active, r[1], nextId), r[2])} :
            \E middle_opps \in
                {StampExpiry(detect_middles(active, r[3],
                                 nextId + Len(arbitrage_opps)), r[4])} :
            \E ev_opps \in
                {StampExpiry(detect_ev(active, r[5],
                                 nextId + Len(arbitrage_opps)
                                        + Len(middle_opps)), r[6])} :
            \E low_opps \in
                {StampExpiry(detect_lows(active, r[7],
                                 nextId + Len(arbitrage_opps)
                                        + Len(middle_opps) + Len(ev_opps)),
                             r[8])} :
            \E d \in {CycleDetections(arbitrage_opps, middle_opps,
                                      ev_opps, low_opps)} :
            \E all_opportunities \in {AllOpportunities(d)} :
                /\ opportunities_csv' =
                       WriteCycle(opportunities_csv, all_opportunities, r[9])
                /\ nextId' = nextId + Len(all_opportunities)
                /\ now' = r[9]
                /\ result' = [op |-> "compute_all_opportunities",
                              arg |-> r, ret |-> Counts(d)]
    /\ UNCHANGED <<inflight, odds_csv, arbitrage_csv, sessions_csv, bets_csv>>

NextStamp ==
    \/ ComputeAllOpportunitiesByTheClock
    \/ Tick
    \/ GetOpportunityById

SpecStamp == InitFeed /\ [][NextStamp]_vars

(***************************************************************************)
(* Compute cycles over snapshots that mix groups the detectors serve with  *)
(* groups and rows they pass over.                                         *)
(***************************************************************************)
\* event 1: a Match Winner market of two outcomes that is an arbitrage;
\* event 2: a Match Winner market of up to four outcomes at 5.00 each;
\* event 3: a Total market with a row whose label has no number ("Away")
\* and two rows whose labels give the lines 2.5 and 3.5
SkipQuotes ==
    << Quote(1, 1, 1, 1, 210, TRUE), Quote(1, 1, 2, 3, 210, TRUE),
       Quote(2, 1, 1, 1, 500, TRUE), Quote(2, 1, 1, 2, 500, TRUE),
       Quote(2, 1, 1, 3, 500, TRUE), Quote(2, 1, 1, 4, 500, TRUE),
       Quote(3, 2, 1, 1, 190, TRUE), Quote(3, 2, 2, 4, 195, TRUE),
       Quote(3, 2, 1, 6, 190, TRUE) >>

InitSkip ==
    \E snapshot \in Snapshots(SkipQuotes, Len(SkipQuotes)) : InitWith(snapshot)

NextSkip ==
    \/ ComputeAllOpportunities
    \/ Tick

SpecSkip == InitSkip /\ [][NextSkip]_vars

(***************************************************************************)
(* The feed read while the clock runs and cycles come and go.              *)
(***************************************************************************)
\* OpportunityService.get_opportunities() with its default arguments:
\* no category, no sport, min_roi 0, min_profit 0, top_n 100, status active
GetActiveOpportunities ==
    /\ \E ret \in get_opportunities(opportunities_csv, "", <<>>, 0, 0, 100,
                                    "active") :
           result' = [op |-> "get_opportunities",
                      arg |-> <<"", <<>>, 0, 0, 100, "active">>,
                      ret |-> ret]
    /\ UNCHANGED <<inflight, now, odds_csv, opportunities_csv, arbitrage_csv,
                   sessions_csv, bets_csv, nextId>>

NextExpiry ==
    \/ ComputeAllOpportunities
    \/ Tick
    \/ MarkOpportunityAsUsed
    \/ GetActiveOpportunities

SpecExpiry == InitFeed /\ [][NextExpiry]_vars

(***************************************************************************)
(* Sessions created and looked up, over a sessions.csv that is missing,    *)
(* holds its header only (after a reset), or holds rows.                   *)
(***************************************************************************)
\* SessionService.get_session(session_id); id 0 was never issued
GetSession ==
    \E session_id \in 0..(nextId - 1) :
        /\ result' = [op |-> "get_session", arg |-> <<session_id>>,
                      ret |-> get_session(sessions_csv, session_id)]
        /\ UNCHANGED <<inflight, now, odds_csv, opportunities_csv,
                       arbitrage_csv, sessions_csv, bets_csv, nextId>>

NextSession ==
    \/ CreateSession
    \/ GetSession
    \/ ResetAllData
    \/ Tick

SpecSession == Init /\ [][NextSession]_vars

(***************************************************************************)
(* Properties of the opportunity lifecycle (specification Spec).           *)
(***************************************************************************)
\* the ids stored in an opportunities file
StoredIds(file) == {safe_read_csv(file)[i].id : i \in DOMAIN safe_read_csv(file)}

\* the stored status of id in file (id must be stored)
StoredStatus(file, id) ==
    LET df == safe_read_csv(file)
    IN  df[CHOOSE i \in DOMAIN df : df[i].id = id].status

\* C1: a compute cycle keeps every entry that was in the collection before
\* it: the collection afterwards is the fresh detections together with the
\* swept prior set, and entries disappear only on a full reset.
C1_CycleKeepsPriorEntries ==
    [][result'.op = "compute_all_opportunities"
          => StoredIds(opportunities_csv) \subseteq StoredIds(opportunities_csv')]_vars

\* C2: across compute cycles and mark-removed calls the stored status of an
\* entry stays in {active, expired, removed} and changes only from active to
\* expired or from active to removed.
C2_StatusOnlyLeavesActive ==
    [][result'.op \in {"compute_all_opportunities", "mark_opportunity_as_used"}
          => \A id \in StoredIds(opportunities_csv) \cap StoredIds(opportunities_csv') :
                 LET before == StoredStatus(opportunities_csv, id)
                     after == StoredStatus(opportunities_csv', id)
                 IN  /\ after \in {"active", "expired", "removed"}
                     /\ after # before => before = "active"]_vars

\* C3: when a compute cycle returns, no entry that was in the collection
\* before the cycle and whose expires_at is earlier than the cycle's clock
\* reading is still active, whatever the quote snapshot holds.
C3_CycleSweepsExpired ==
    [][result'.op = "compute_all_opportunities"
          => \A i \in DOMAIN safe_read_csv(opportunities_csv) :
             \A j \in DOMAIN safe_read_csv(opportunities_csv') :
                 LET old == safe_read_csv(opportunities_csv)[i]
                     new == safe_read_csv(opportunities_csv')[j]
                 IN  (new.id = old.id /\ old.expires_at < now)
                         => new.status # "active"]_vars

(***************************************************************************)
(* Properties of the bet-placement flow (specification SpecBet).           *)
(***************************************************************************)
\* C4: once place_bet has returned success for an id, mark-removed has been
\* applied to that id: the opportunity collection stores it as removed.
C4_BetRemovesOpportunity ==
    (result.op = "place_bet" /\ result.ret.success)
        => /\ result.arg[2] \in StoredIds(opportunities_csv)
           /\ StoredStatus(opportunities_csv, result.arg[2]) = "removed"

\* the odds of the legs a stored arbitrage row has
LegOdds(arb) ==
    IF arb.odds3 = NaN THEN <<arb.odds1, arb.odds2>>
    ELSE <<arb.odds1, arb.odds2, arb.odds3>>

\* C7: for a stored arbitrage opportunity, calculate_stakes returns one
\* stake per leg; the stakes sum to total_stake, stake * odds is the same
\* for every leg, and expected_profit = expected_return - total_stake, each
\* within the rounding of the stored two-decimal amounts.
C7_StakesSplitTotal ==
    (result.op = "calculate_stakes" /\ result.ret # <<>>)
        => LET calc == result.ret[1]
               total_stake == result.arg[2]
               odds == LegOdds(get_arbitrage_by_id(arbitrage_csv,
                                                   result.arg[1])[1])
               stake(i) == calc.stakes[i].stake
           IN  /\ Len(calc.stakes) = Len(odds)
               /\ \A i \in DOMAIN calc.stakes : stake(i) # NaN /\ stake(i) > 0
               /\ Abs(SumSeq([i \in DOMAIN calc.stakes |-> stake(i)])
                        - total_stake) <= Len(odds)
               /\ \A i, j \in DOMAIN odds :
                      2 * Abs(stake(i) * odds[i] - stake(j) * odds[j])
                          <= odds[i] + odds[j]
               /\ calc.expected_return # NaN /\ calc.expected_profit # NaN
               /\ Abs(calc.expected_profit
                        - (calc.expected_return - total_stake)) <= 1

\* C8: a lookup by id returns None exactly when the id is not stored (an
\* empty or missing store included) and writes nothing: calculate_stakes and
\* get_arbitrage_by_id against the arbitrage store, get_opportunity_by_id
\* against the opportunity collection.
C8_LookupNotFound ==
    [][result'.op \in {"get_arbitrage_by_id", "calculate_stakes",
                       "get_opportunity_by_id"}
          => /\ UNCHANGED <<inflight, odds_csv, opportunities_csv, arbitrage_csv,
                            sessions_csv, bets_csv>>
             /\ (result'.ret = <<>>) <=>
                    (result'.arg[1] \notin
                        StoredIds(IF result'.op = "get_opportunity_by_id"
                                  THEN opportunities_csv
                                  ELSE arbitrage_csv))]_vars

\* C8 witness: a stake calculation for an id that a non-empty arbitrage
\* store does not hold returned None
C8_Witness ==
    /\ result.op = "calculate_stakes"
    /\ result.ret = <<>>
    /\ StoredIds(arbitrage_csv) # {}
    /\ StoredIds(opportunities_csv) # {}

(***************************************************************************)
(* Properties of the detectors (specifications SpecArb, SpecEv, SpecLow).  *)
(***************************************************************************)
\* the largest element of a non-empty set of numbers
Largest(S) == CHOOSE m \in S : \A x \in S : x <= m

\* the maximum odds quoted in group for outcome o
BestOdds(group, o) ==
    Largest({group[i].odds : i \in {j \in DOMAIN group : group[j].outcome = o}})

\* sum over the outcomes of 1/best odds, as <<num, den>> over the common
\* denominator (the product of the best odds, in hundredths)
CombinedProbability(best) ==
    IF Len(best) = 2
    THEN <<100 * (best[1] + best[2]), best[1] * best[2]>>
    ELSE <<100 * (best[1] * best[2] + best[1] * best[3] + best[2] * best[3]),
           best[1] * best[2] * best[3]>>

\* the legs an arbitrage record names
RecordLegs(rec) ==
    {<<rec.outcome1, rec.bookmaker1, rec.odds1>>,
     <<rec.outcome2, rec.bookmaker2, rec.odds2>>}
    \union (IF rec.outcome3 = None THEN {}
            ELSE {<<rec.outcome3, rec.bookmaker3, rec.odds3>>})

\* what detect_arbitrage owes one market group of the snapshot
ArbitrageGroupServed(odds_df, ret, key) ==
    LET group == MarketGroup(odds_df, key)
        outs == {group[i].outcome : i \in DOMAIN group}
        outSeq == SortedKeys({<<o>> : o \in outs})
        best == [k \in DOMAIN outSeq |-> BestOdds(group, outSeq[k][1])]
        emitted == {k \in DOMAIN ret :
                       <<ret[k].event_id, ret[k].sport, ret[k].match,
                         ret[k].market>> = key}
    IN  Cardinality(outs) \in {2, 3} =>
            LET p == CombinedProbability(best)
                floor == LongDiv(p[2] - p[1], p[2], 4)[1]
            IN  IF p[1] < p[2]
                THEN /\ Cardinality(emitted) = 1
                     /\ \A k \in emitted :
                            /\ ret[k].profit_percentage \in {floor, floor + 1}
                            /\ {leg[1] : leg \in RecordLegs(ret[k])} = outs
                            /\ \A leg \in RecordLegs(ret[k]) :
                                   /\ leg[3] = BestOdds(group, leg[1])
                                   /\ \E i \in DOMAIN group :
                                          /\ group[i].outcome = leg[1]
                                          /\ group[i].bookmaker = leg[2]
                                          /\ group[i].odds = leg[3]
                ELSE emitted = {}

C6_StoredArbBelowHundred ==
    result.op = "detect_arbitrage"
        => \A k \in DOMAIN result.ret :
               /\ result.ret[k].arb_percentage < 10000
               /\ result.ret[k].profit_percentage > 0
               /\ result.ret[k].roi > 0
               /\ result.ret[k].profit_percentage
                      = 10000 - result.ret[k].arb_percentage

\* the records of ret that were made from a quote equal to row
EvRecordsOf(ret, row) ==
    {k \in DOMAIN ret :
        /\ <<ret[k].event_id, ret[k].sport, ret[k].match, ret[k].market,
              ret[k].outcome>> = OutcomeKey(row)
        /\ ret[k].bookmaker = row.bookmaker
        /\ ret[k].offered_odds = row.odds}

\* edge = 100 * (1 - (1/o)/(1/m)) >= 2.0 for the quote row of odds_df, m the
\* mean of the odds of row's (event, sport, match, market, outcome) group
EdgeIsTwoOrMore(odds_df, row) ==
    LET group == SelectSeq(odds_df, LAMBDA r : OutcomeKey(r) = OutcomeKey(row))
        S == SumSeq(Column(group, "odds"))
        n == Len(group)
    IN  100 * (n * row.odds - S) >= 2 * n * row.odds

LowGroupServed(odds_df, ret, key) ==
    LET group == SelectSeq(odds_df, LAMBDA r : BookKey(r) = key)
        total == SumInv(Column(group, "odds"))
        emitted == {k \in DOMAIN ret :
                       <<ret[k].event_id, ret[k].sport, ret[k].match,
                         ret[k].market, ret[k].bookmaker>> = key}
        \* hold_percentage = 100 * (total - 1) <= 2.5
        hold_in_range == 200 * (total[1] - total[2]) <= 5 * total[2]
    IN  IF hold_in_range
        THEN /\ Cardinality(emitted) = 1
             /\ \A k \in emitted :
                    /\ ret[k].roi >= 0
                    \* 2 * roi = 2.5 - hold_percentage, in hundredths
                    /\ Abs(2 * ret[k].roi * total[2]
                            - (250 * total[2]
                               - 10000 * (total[1] - total[2]))) <= total[2]
        ELSE emitted = {}

RECURSIVE SumValues(_, _)
SumValues(f, S) ==
    IF S = {} THEN 0
    ELSE LET k == CHOOSE x \in S : TRUE
         IN  f[k] + SumValues(f, S \ {k})

\* the rows of odds_df that detect_lows groups under an emitted record
RecordGroup(odds_df, rec) ==
    SelectSeq(odds_df, LAMBDA r :
        BookKey(r) = <<rec.event_id, rec.sport, rec.match, rec.market,
                       rec.bookmaker>>)

\* one estimate and one odds entry per row of the group, and the estimates
\* add up to 100.00 within half a hundredth per row
LowRecordComplete(odds_df, rec) ==
    LET group == RecordGroup(odds_df, rec)
        estimates == rec.true_probability_estimates
    IN  /\ Cardinality(DOMAIN estimates) = Len(group)
        /\ Cardinality(DOMAIN rec.outcomes) = Len(group)
        /\ Abs(SumValues(estimates, DOMAIN estimates) - 10000) <= Len(group)

\* C11: every low-hold opportunity detect_lows emits carries one
\* true-probability estimate and one odds entry per row of its group, and the
\* estimates sum to 100% within rounding, also when one bookmaker has more
\* than one row for the same outcome label.
C11_EstimatesCoverEveryRow ==
    result.op = "detect_lows"
        => \A k \in DOMAIN result.ret :
               LowRecordComplete(result.arg[1], result.ret[k])

\* C11 without the rows that repeat an outcome label within a group
C11_DistinctLabelsOnly ==
    (/\ result.op = "detect_lows"
     /\ \A i, j \in DOMAIN result.arg[1] :
            (/\ i # j
             /\ BookKey(result.arg[1][i]) = BookKey(result.arg[1][j]))
                => result.arg[1][i].outcome # result.arg[1][j].outcome)
        => \A k \in DOMAIN result.ret :
               LowRecordComplete(result.arg[1], result.ret[k])

\* the rows of odds_df at positions i < j form a middle: two different
\* bookmakers, a line extracted from each row, and a gap of 0.5 to 10
IsMiddlePair(odds_df, i, j) ==
    /\ i < j
    /\ odds_df[i].bookmaker # odds_df[j].bookmaker
    /\ RowLine(odds_df[i]) # <<>>
    /\ RowLine(odds_df[j]) # <<>>
    /\ LET gap == Abs(RowLine(odds_df[i])[1] - RowLine(odds_df[j])[1])
       IN  50 <= gap /\ gap <= 1000

\* what a middle record tells about the pair of rows it was made from
PairOfRecord(rec) ==
    <<rec.bookmaker1, rec.line1, rec.odds1, rec.bookmaker2, rec.line2,
      rec.odds2>>

\* the same for the rows at positions i and j
PairOfRows(odds_df, i, j) ==
    <<odds_df[i].bookmaker, RowLine(odds_df[i])[1], odds_df[i].odds,
      odds_df[j].bookmaker, RowLine(odds_df[j])[1], odds_df[j].odds>>

\* in the group of key, the records and the middle pairs match one to one
MiddleGroupServed(odds_df, ret, key) ==
    LET members == {i \in DOMAIN odds_df : MarketKey(odds_df[i]) = key}
        pairs == {p \in members \X members : IsMiddlePair(odds_df, p[1], p[2])}
        emitted == {k \in DOMAIN ret :
                       <<ret[k].event_id, ret[k].sport, ret[k].match,
                         ret[k].market>> = key}
    IN  /\ Cardinality(emitted) = Cardinality(pairs)
        /\ \A p \in pairs :
               Cardinality({k \in emitted :
                   PairOfRecord(ret[k]) = PairOfRows(odds_df, p[1], p[2])})
               = Cardinality({q \in pairs :
                   PairOfRows(odds_df, q[1], q[2])
                       = PairOfRows(odds_df, p[1], p[2])})

FirstNumber(label) ==
    LET digits == {i \in DOMAIN label : IsDigit(label[i])}
    IN  IF digits = {} THEN <<>>
        ELSE
        LET start == CHOOSE i \in digits : \A k \in digits : i <= k
            RunEnd(from) ==
                CHOOSE e \in from..Len(label) :
                    /\ \A k \in from..e : IsDigit(label[k])
                    /\ e = Len(label) \/ ~IsDigit(label[e + 1])
            whole == RunEnd(start)
            fraction == /\ whole + 2 <= Len(label)
                        /\ label[whole + 1] = "."
                        /\ IsDigit(label[whole + 2])
            end == IF fraction THEN RunEnd(whole + 2) ELSE whole
            magnitude == ParseFloat(SubSeq(label, start, end))[1]
        IN  IF start > 1 /\ label[start - 1] = "-"
            THEN <<0 - magnitude>> ELSE <<magnitude>>

\* the line the description gives a row: the market-parameter value when the
\* field is present, else the first signed numeric token of the label
StatedLine(row) ==
    IF row.market_params # <<>> THEN ParseFloat(row.market_params[1])
    ELSE FirstNumber(OutcomeLabel[row.outcome])

\* C13: _extract_lines returns for each row of the pair the market-parameter
\* value when present and otherwise the first signed numeric token of the
\* outcome label, whatever the label (more than one run of digits, a '+'
\* sign); it returns an absent value only when no number can be parsed.
C13_LineIsFirstNumber ==
    result.op = "_extract_lines"
        => IF result.ret = <<>>
           THEN \E k \in 1..2 : StatedLine(result.arg[k]) = <<>>
           ELSE \A k \in 1..2 : <<result.ret[k]>> = StatedLine(result.arg[k])

\* C13 on the labels that hold a single run of digits
C13_SingleNumberLabels ==
    (/\ result.op = "_extract_lines"
     /\ \A k \in 1..2 : result.arg[k].outcome # 5)
        => IF result.ret = <<>>
           THEN \E k \in 1..2 : StatedLine(result.arg[k]) = <<>>
           ELSE \A k \in 1..2 : <<result.ret[k]>> = StatedLine(result.arg[k])

\* the stored row of a returned opportunity
StoredRow(file, rec) ==
    LET df == safe_read_csv(file)
    IN  df[CHOOSE i \in DOMAIN df : df[i].id = rec.id]

\* a stored row satisfies the filters of a query; an absent
\* profit_percentage is read as 0
SatisfiesFilters(row, category, sport, min_roi, min_profit, status) ==
    /\ category # "" => row.type = category
    /\ sport # <<>> => lower(SportLabel[row.sport]) = lower(sport)
    /\ row.status = status
    /\ row.roi >= min_roi
    /\ (IF row.profit_percentage = NaN THEN 0 ELSE row.profit_percentage)
           >= min_profit

\* C14: every opportunity get_opportunities returns satisfies all supplied
\* filters (type, sport ignoring case, stored status, roi >= min_roi and
\* profit_percentage >= min_profit, for every bound including the default 0),
\* and every stored entry that satisfies them is a candidate: when fewer than
\* top_n entries are returned, all of them are.
C14_FeedMatchesFilters ==
    result.op = "get_opportunities"
        => LET category == result.arg[1]
               sport == result.arg[2]
               min_roi == result.arg[3]
               min_profit == result.arg[4]
               top_n == result.arg[5]
               status == result.arg[6]
               df == safe_read_csv(opportunities_csv)
           IN  /\ \A k \in DOMAIN result.ret :
                      SatisfiesFilters(StoredRow(opportunities_csv,
                                                 result.ret[k]),
                                       category, sport, min_roi, min_profit,
                                       status)
               /\ Len(result.ret) < top_n
                      => \A i \in DOMAIN df :
                             SatisfiesFilters(df[i], category, sport, min_roi,
                                              min_profit, status)
                                 => \E k \in DOMAIN result.ret :
                                        result.ret[k].id = df[i].id

\* C14 on the collections that hold no entry of negative roi
C14_NonNegativeRoi ==
    (\A i \in DOMAIN safe_read_csv(opportunities_csv) :
         safe_read_csv(opportunities_csv)[i].roi >= 0)
        => C14_FeedMatchesFilters

\* the order of the rows of df by roi, highest first, rows of equal roi in
\* the order they have in df
StableOrder(df) ==
    LET p == CHOOSE q \in Orderings(df) :
                 \A i, j \in DOMAIN df :
                     (i < j /\ df[q[i]].roi = df[q[j]].roi) => q[i] < q[j]
    IN  [i \in DOMAIN df |-> df[p[i]]]

\* the entries a query filters out of the stored collection
FilteredEntries(file, arg) ==
    FilterOpportunities(safe_read_csv(file), arg[1], arg[2], arg[3], arg[4],
                        arg[6])

\* C15: get_opportunities returns the first top_n of the filtered entries
\* ordered by roi descending, entries of equal roi staying in their original
\* insertion order; it never returns more than top_n entries and never leaves
\* an entry out in favour of one with a lower roi.
C15_TopNByRoiStable ==
    result.op = "get_opportunities"
        => result.ret =
               Column(head(StableOrder(FilteredEntries(opportunities_csv,
                                                       result.arg)),
                           result.arg[5]),
                      "details")

\* C15 without the order among entries of equal roi: at most top_n entries,
\* roi never rising along the list, and no entry left out that has a higher
\* roi than a returned one
C15_TopNByRoi ==
    result.op = "get_opportunities"
        => LET kept == FilteredEntries(opportunities_csv, result.arg)
               returned == {result.ret[k].id : k \in DOMAIN result.ret}
           IN  /\ Len(result.ret) = Min(result.arg[5], Len(kept))
               /\ \A k, l \in DOMAIN result.ret :
                      k < l => result.ret[k].roi >= result.ret[l].roi
               /\ \A i \in DOMAIN kept :
                      kept[i].id \notin returned
                          => \A k \in DOMAIN result.ret :
                                 result.ret[k].roi >= kept[i].roi

\* the stored collection with every generated id blanked
WithoutIds(file) ==
    [file EXCEPT !.rows =
        [i \in DOMAIN file.rows |->
            [file.rows[i] EXCEPT !.id = 0, !.details.id = 0]]]

\* C16: a compute cycle that directly follows another one, on the same
\* snapshot and without any advance of the clock, leaves the stored collection
\* with the same content up to the regenerated ids and returns the same
\* counts.
C16_SecondCycleChangesNothing ==
    [][(/\ result.op = "compute_all_opportunities"
        /\ result'.op = "compute_all_opportunities")
           => (/\ WithoutIds(opportunities_csv') = WithoutIds(opportunities_csv)
               /\ result'.ret = result.ret)]_vars

\* C16 witness: the clock has not moved, the snapshot never changes, and the
\* stored entry carries the second id: two cycles ran in a row and each
\* found one opportunity
C16_Witness ==
    /\ result.op = "compute_all_opportunities"
    /\ now = 0
    /\ result.ret.total = 1
    /\ nextId = 3
    /\ Len(opportunities_csv.rows) = 1
    /\ opportunities_csv.rows[1].id = 2

\* the collections the two calls of the pair leave when one runs after the
\* other, from the collection they were issued on
SerialOutcomes ==
    LET cycle(file) ==
            IF safe_read_csv(odds_csv) = <<>> THEN file
            ELSE WriteCycle(file, inflight.all_opportunities, now)
        mark(file) ==
            mark_opportunity_as_used(file, inflight.opportunity_id).file
    IN  {cycle(mark(inflight.base)), mark(cycle(inflight.base))}

\* C17: operations on the shared collection are serialized: once a compute
\* cycle and a mark-removed call that were issued together have both
\* returned, the collection is what running them one after the other, in one
\* of the two orders, leaves; no entry and no status update is lost.
C17_PairIsSerializable ==
    (inflight.active /\ PairDone) => opportunities_csv \in SerialOutcomes

\* a detector's record is among the stored entries, whatever its id
IsPersisted(file, rec) ==
    \E i \in DOMAIN safe_read_csv(file) :
        [safe_read_csv(file)[i].details EXCEPT !.id = 0] = [rec EXCEPT !.id = 0]

\* C18: when one of the four detectors raises on a snapshot (here
\* detect_middles), the other three still complete and the cycle persists
\* what they found.
C18_OtherDetectorsPersisted ==
    (/\ result.op = "compute_all_opportunities"
     /\ detect_middles_raises(safe_read_csv(odds_csv),
                              ActiveOdds(safe_read_csv(odds_csv))))
        => LET active == ActiveOdds(safe_read_csv(odds_csv))
               found == detect_arbitrage(active, now, 0)
                            \o detect_ev(active, now, 0)
                            \o detect_lows(active, now, 0)
           IN  \A k \in DOMAIN found : IsPersisted(opportunities_csv, found[k])

\* a placement that has to be refused: the session or the opportunity is not
\* stored, or the stake is not positive
MustBeRefused(arg) ==
    \/ get_session(sessions_csv, arg[1]) = <<>>
    \/ get_arbitrage_by_id(arbitrage_csv, arg[2]) = <<>>
    \/ arg[3] <= 0

\* C19: a bet placement that names an unknown session, an unknown opportunity
\* or a total_stake that is not positive is rejected with a specific reason,
\* records no bet row and leaves the session statistics as they were, whether
\* it comes as a call of BetService.place_bet or as a POST /bets/place.
C19_BadPlacementRefused ==
    [][/\ (result'.op = "place_bet" /\ MustBeRefused(result'.arg))
           => /\ ~result'.ret.success
              /\ result'.ret.error # ""
              /\ bets_csv' = bets_csv
              /\ sessions_csv' = sessions_csv
       /\ (result'.op = "POST /bets/place" /\ MustBeRefused(result'.arg))
           => /\ result'.ret.status \in {400, 422}
              /\ bets_csv' = bets_csv
              /\ sessions_csv' = sessions_csv]_vars

\* C19 for the calls of the service with a positive stake: an unknown session
\* or opportunity is refused with its reason and nothing is recorded
C19_UnknownIdsRefused ==
    [][(/\ result'.op = "place_bet"
        /\ result'.arg[3] > 0
        /\ MustBeRefused(result'.arg))
           => /\ ~result'.ret.success
              /\ result'.ret.error \in {"Invalid session ID",
                                        "Invalid arbitrage ID"}
              /\ bets_csv' = bets_csv
              /\ sessions_csv' = sessions_csv]_vars

\* C20: a failed read or write is reported, never swallowed:
\* mark_opportunity_as_used returns True only if the removal is stored,
\* compute_all_opportunities reports no count for opportunities it did not
\* store, and a call whose read failed does not answer as it does on an empty
\* collection.
C20_FailuresAreReported ==
    /\ (result.op = "mark_opportunity_as_used" /\ result.ret)
           => StoredStatus(opportunities_csv, result.arg[1]) = "removed"
    /\ (result.op = "compute_all_opportunities" /\ result.ret.total > 0)
           => Cardinality({id \in StoredIds(opportunities_csv) :
                              id >= nextId - result.ret.total})
                  = result.ret.total
    /\ (result.op = "mark_opportunity_as_used" /\ ~result.arg[2])
           => result.ret # FALSE
    /\ (result.op = "compute_all_opportunities" /\ ~result.arg[1])
           => result.ret # ZeroCounts

\* C20 for the calls whose reads and writes all succeed
C20_WithoutFailures ==
    (\/ (/\ result.op = "mark_opportunity_as_used"
         /\ result.arg[2] /\ result.arg[3])
     \/ (/\ result.op = "compute_all_opportunities"
         /\ result.arg[1] /\ result.arg[2]))
        => C20_FailuresAreReported

(***************************************************************************)
(* Properties of safe_write_csv in mode 'w' (specification SpecWrite).     *)
(***************************************************************************)
\* C21: a replace-all write is all-or-nothing.  While safe_write_csv runs
\* the file is the collection committed before the call, and so is what a
\* reader gets; when it returns False, whichever operation raised, the file
\* is still that collection; when it returns True the file is the DataFrame
\* it was given, whole.
C21_WriteIsAllOrNothing ==
    /\ inflight.write_pc # "idle" =>
           /\ opportunities_csv = inflight.base
           /\ result.op = "safe_read_csv" =>
                  result.ret = safe_read_csv(inflight.base)
    /\ result.op = "safe_write_csv" =>
           IF result.ret
           THEN opportunities_csv = safe_write_csv(inflight.df)
           ELSE opportunities_csv = inflight.base

\* a write of a collection of two or more rows failed in to_csv after the
\* first row had been written to the temporary file
C21_Witness ==
    /\ result.op = "safe_write_csv"
    /\ result.ret = FALSE
    /\ inflight.failed_at = "to_csv"
    /\ inflight.written >= 1
    /\ inflight.written < Len(inflight.df)
    /\ opportunities_csv.rows # inflight.df
    /\ opportunities_csv.rows # <<>>

(***************************************************************************)
(* Properties of the stamps of new entries (specification SpecStamp).      *)
(***************************************************************************)
\* the rows a cycle has just written
JustWritten ==
    IF result.op = "compute_all_opportunities" /\ result.ret.total > 0
    THEN safe_read_csv(opportunities_csv)
    ELSE <<>>

\* C22: every opportunity a detector run creates enters the collection with
\* status active and with expires_at equal to its creation timestamp plus
\* the two-hour horizon, and the opportunities of one detector run share
\* one creation timestamp and one expiry.
C22_ExpiryIsCreationPlusHorizon ==
    \A i \in DOMAIN JustWritten :
        /\ JustWritten[i].status = "active"
        /\ JustWritten[i].details.status = "active"
        /\ JustWritten[i].expires_at = JustWritten[i].timestamp + EXPIRY_HOURS
        /\ \A j \in DOMAIN JustWritten :
               JustWritten[i].type = JustWritten[j].type =>
                   /\ JustWritten[i].timestamp = JustWritten[j].timestamp
                   /\ JustWritten[i].expires_at = JustWritten[j].expires_at

\* what holds of the stamps: new entries are active, an entry expires no
\* earlier than two hours after its creation timestamp, and the entries of
\* one detector run share their stamps
C22_ExpiryAtLeastHorizon ==
    \A i \in DOMAIN JustWritten :
        /\ JustWritten[i].status = "active"
        /\ JustWritten[i].expires_at >= JustWritten[i].timestamp + EXPIRY_HOURS
        /\ \A j \in DOMAIN JustWritten :
               JustWritten[i].type = JustWritten[j].type =>
                   /\ JustWritten[i].timestamp = JustWritten[j].timestamp
                   /\ JustWritten[i].expires_at = JustWritten[j].expires_at

(***************************************************************************)
(* Properties of a cycle over mixed snapshots (specification SpecSkip).    *)
(***************************************************************************)
\* the detector records of one type among the stored entries
StoredDetails(file, type) ==
    Column(SelectSeq(safe_read_csv(file), LAMBDA r : r.type = type), "details")

\* the keys of the market groups of a snapshot
MarketKeys(odds_df) == {MarketKey(odds_df[i]) : i \in DOMAIN odds_df}

\* the number of distinct outcomes of the group of key
DistinctOutcomes(odds_df, key) ==
    Cardinality({odds_df[i].outcome :
                    i \in {j \in DOMAIN odds_df : MarketKey(odds_df[j]) = key}})

\* C23: a group with a number of distinct outcomes other than 2 or 3, a row
\* whose line cannot be parsed and an empty snapshot contribute no
\* opportunity and do not abort the cycle: the cycle returns its counts,
\* no arbitrage is stored for such a group and no middle for a pair with
\* such a row, and the arbitrages and middles of every other group and pair
\* are stored.
C23_SkippedInputsDoNotAbort ==
    result.op = "compute_all_opportunities" =>
        LET odds_df == safe_read_csv(odds_csv)
            arbs == StoredDetails(opportunities_csv, "arbitrage")
            mids == StoredDetails(opportunities_csv, "middle")
        IN  /\ "total" \in DOMAIN result.ret
            /\ odds_df = <<>> =>
                   result.ret.total = 0 /\ opportunities_csv = NoFile
            /\ result.ret.arbitrage = Len(arbs)
            /\ result.ret.middles = Len(mids)
            /\ \A key \in MarketKeys(odds_df) :
                   /\ ArbitrageGroupServed(odds_df, arbs, key)
                   /\ DistinctOutcomes(odds_df, key) \notin {2, 3} =>
                          \A k \in DOMAIN arbs : MarketKey(arbs[k]) # key
                   /\ IsLineMarket(key[4]) =>
                          MiddleGroupServed(odds_df, mids, key)
                   /\ ~IsLineMarket(key[4]) =>
                          \A k \in DOMAIN mids : MarketKey(mids[k]) # key

\* a cycle over the whole catalogue: the four-outcome group and the pairs
\* with the row without a line yield nothing, while the arbitrage of event 1
\* and the middle of the lines 2.5 and 3.5 are stored
C23_Witness ==
    /\ result.op = "compute_all_opportunities"
    /\ Len(safe_read_csv(odds_csv)) = Len(SkipQuotes)
    /\ DistinctOutcomes(safe_read_csv(odds_csv), <<2, 1, 2, 1>>) = 4
    /\ \E i \in DOMAIN safe_read_csv(odds_csv) :
           safe_read_csv(odds_csv)[i].market = 2
               /\ RowLine(safe_read_csv(odds_csv)[i]) = <<>>
    /\ \E k \in DOMAIN StoredDetails(opportunities_csv, "arbitrage") :
           StoredDetails(opportunities_csv, "arbitrage")[k].event_id = 1
    /\ Len(StoredDetails(opportunities_csv, "middle")) = 1
    /\ \A k \in DOMAIN StoredDetails(opportunities_csv, "arbitrage") :
           StoredDetails(opportunities_csv, "arbitrage")[k].event_id # 2

(***************************************************************************)
(* The legs of a stake calculation (specification SpecLookup).             *)
(***************************************************************************)
\* C24: calculate_stakes returns one stake per leg of the stored arbitrage
\* opportunity: two stakes, computed from odds1 and odds2 only, when the
\* store holds no third outcome, bookmaker and odds, and three stakes when
\* it holds them.
C24_OneStakePerLeg ==
    (result.op = "calculate_stakes" /\ result.ret # <<>>)
        => LET calc == result.ret[1]
               total_stake == result.arg[2]
               arb == get_arbitrage_by_id(arbitrage_csv, result.arg[1])[1]
               two == SumInv(<<arb.odds1, arb.odds2>>)
           IN  IF arb.odds3 = NaN
               THEN /\ Len(calc.stakes) = 2
                    /\ Len(calc.bookmakers) = 2
                    /\ calc.stakes[1].stake = Stake(total_stake, arb.odds1, two)
                    /\ calc.stakes[2].stake = Stake(total_stake, arb.odds2, two)
               ELSE /\ Len(calc.stakes) = 3
                    /\ Len(calc.bookmakers) = 3

\* what holds of a stored three-leg opportunity: three stakes, none of them
\* NaN
C24_ThreeLegsThreeStakes ==
    (result.op = "calculate_stakes" /\ result.ret # <<>>)
        => LET calc == result.ret[1]
               arb == get_arbitrage_by_id(arbitrage_csv, result.arg[1])[1]
           IN  arb.odds3 # NaN =>
                   /\ Len(calc.stakes) = 3
                   /\ \A i \in 1..3 : calc.stakes[i].stake # NaN

(***************************************************************************)
(* The frame of mark_opportunity_as_used (specification Spec).             *)
(***************************************************************************)
\* C25: mark_opportunity_as_used changes nothing but the status of the
\* addressed entry.  For a stored id it returns True and the collection it
\* leaves is the one it found with that entry's status set to removed, every
\* other entry and every other field as before; for an id that is not stored
\* (or an empty or missing collection) it returns False and leaves the
\* collection as it was.  No other file changes.
C25_MarkChangesOnlyStatus ==
    [][result'.op = "mark_opportunity_as_used" =>
          LET id == result'.arg[1]
              df == safe_read_csv(opportunities_csv)
              after == safe_read_csv(opportunities_csv')
          IN  /\ UNCHANGED <<odds_csv, arbitrage_csv, sessions_csv, bets_csv>>
              /\ IF \E i \in DOMAIN df : df[i].id = id
                 THEN /\ result'.ret = TRUE
                      /\ DOMAIN after = DOMAIN df
                      /\ \A i \in DOMAIN df :
                             after[i] = IF df[i].id = id
                                        THEN [df[i] EXCEPT !.status = "removed"]
                                        ELSE df[i]
                 ELSE /\ result'.ret = FALSE
                      /\ opportunities_csv' = opportunities_csv
    ]_vars

\* one entry of a collection of several has just been marked: it is removed
\* and another entry is still active
C25_Witness ==
    /\ result.op = "mark_opportunity_as_used"
    /\ result.ret = TRUE
    /\ \E i, j \in DOMAIN safe_read_csv(opportunities_csv) :
           /\ safe_read_csv(opportunities_csv)[i].id = result.arg[1]
           /\ safe_read_csv(opportunities_csv)[i].status = "removed"
           /\ safe_read_csv(opportunities_csv)[j].id # result.arg[1]
           /\ safe_read_csv(opportunities_csv)[j].status = "active"

(***************************************************************************)
(* The outcome set behind a low-hold record (specification SpecLow).       *)
(***************************************************************************)
\* the outcomes quoted in the market group of key, by any bookmaker
MarketOutcomes(odds_df, key) ==
    {odds_df[i].outcome :
        i \in {j \in DOMAIN odds_df : MarketKey(odds_df[j]) = key}}

\* the outcomes one bookmaker quotes in that group
BookmakerOutcomes(odds_df, key, bookmaker) ==
    {odds_df[i].outcome :
        i \in {j \in DOMAIN odds_df :
                  MarketKey(odds_df[j]) = key /\ odds_df[j].bookmaker = bookmaker}}

\* C26: a low-hold opportunity is emitted only for a bookmaker whose rows in
\* the (event, market) group cover every outcome of that market; a bookmaker
\* that quotes a strict subset of the outcomes yields none.
C26_LowNeedsFullOutcomeSet ==
    result.op = "detect_lows" =>
        \A k \in DOMAIN result.ret :
            BookmakerOutcomes(result.arg[1], MarketKey(result.ret[k]),
                              result.ret[k].bookmaker)
                = MarketOutcomes(result.arg[1], MarketKey(result.ret[k]))

(***************************************************************************)
(* The status a reader is shown (specifications Spec and SpecFeed).        *)
(***************************************************************************)
\* C27: the status field of the record get_opportunity_by_id returns is the
\* entry's stored status at the time of the call: expired once the entry was
\* swept, removed once it was marked, never active then.
C27_ReturnedStatusIsStored ==
    (result.op = "get_opportunity_by_id" /\ result.ret # <<>>)
        => result.ret[1].status
               = StoredStatus(opportunities_csv, result.arg[1])

\* the same for the records get_opportunities returns: each shows the status
\* the query selected
C27_FeedShowsStoredStatus ==
    result.op = "get_opportunities" =>
        \A k \in DOMAIN result.ret :
            result.arg[6] # "" => result.ret[k].status = result.arg[6]

\* what holds of the returned status: it is the one the detector gave the
\* record
C27_ReturnedStatusIsActive ==
    (result.op = "get_opportunity_by_id" /\ result.ret # <<>>)
        => result.ret[1].status = "active"

(***************************************************************************)
(* Expired entries and the feed (specification SpecExpiry).                *)
(***************************************************************************)
\* C28: whenever it is called, get_opportunities with status active returns
\* no opportunity whose expires_at is earlier than the current time.
C28_ActiveFeedHasNoExpired ==
    (result.op = "get_opportunities" /\ result.arg[6] = "active") =>
        \A k \in DOMAIN result.ret : ~(result.ret[k].expires_at < now)

\* what holds: the active feed returns the entries whose stored status is
\* active
C28_ActiveFeedIsStoredActive ==
    (result.op = "get_opportunities" /\ result.arg[6] = "active") =>
        \A k \in DOMAIN result.ret :
            StoredStatus(opportunities_csv, result.ret[k].id) = "active"

(***************************************************************************)
(* Unified arbitrage entries and the stake calculator (specification       *)
(* SpecBet).                                                               *)
(***************************************************************************)
\* the stored rows of the unified collection that the feed returns as active
\* arbitrage opportunities under id
ActiveArbitrage(file, id) ==
    SelectSeq(safe_read_csv(file),
              LAMBDA r : r.id = id /\ r.type = "arbitrage" /\ r.status = "active")

\* C29: an arbitrage opportunity that the compute cycle stored in the unified
\* collection and that is active there resolves by its id: calculate_stakes
\* returns a result for the same legs and odds, and place_bet does not
\* report the id as unknown.
C29_FeedArbitrageResolves ==
    /\ (result.op = "calculate_stakes"
        /\ ActiveArbitrage(opportunities_csv, result.arg[1]) # <<>>) =>
           /\ result.ret # <<>>
           /\ LET opp == ActiveArbitrage(opportunities_csv,
                                         result.arg[1])[1].details
              IN  {<<result.ret[1].stakes[i].outcome,
                     result.ret[1].bookmakers[i].bookmaker>> :
                       i \in DOMAIN result.ret[1].stakes}
                  = {<<leg[1], leg[2]>> : leg \in RecordLegs(opp)}
    /\ (result.op = "place_bet"
        /\ ActiveArbitrage(opportunities_csv, result.arg[2]) # <<>>) =>
           result.ret.error # "Invalid arbitrage ID"

\* what holds: the stake calculator finds an id exactly when arbitrage.csv,
\* the store compute_arbitrage fills, holds it
C29_ResolvesInLegacyStore ==
    result.op = "calculate_stakes" =>
        (result.ret # <<>>
            <=> \E i \in DOMAIN safe_read_csv(arbitrage_csv) :
                    safe_read_csv(arbitrage_csv)[i].id = result.arg[1])

(***************************************************************************)
(* The append round trip of sessions (specification SpecSession).          *)
(***************************************************************************)
\* C30: after create_session has returned session id s, get_session(s)
\* returns that session with total_bets 0 and zero totals, and every session
\* that could be retrieved before the call can still be retrieved, unchanged
\* -- whether sessions.csv was missing, held its header only, or held rows.
C30_CreatedSessionIsRetrievable ==
    [][result'.op = "create_session" =>
          /\ get_session(sessions_csv', result'.ret) # <<>>
          /\ \A s \in get_session(sessions_csv', result'.ret) :
                 /\ s.session_id = result'.ret
                 /\ s.total_bets = 0
                 /\ s.total_stake = 0
                 /\ s.total_expected_profit = 0
          /\ \A id \in 0..nextId :
                 get_session(sessions_csv, id) # <<>> =>
                     get_session(sessions_csv', id) = get_session(sessions_csv, id)
    ]_vars

\* what holds: the same whenever sessions.csv exists at the time of the
\* call, with its header only or with rows
C30_RetrievableWhenFileExists ==
    [][(result'.op = "create_session" /\ sessions_csv.exists) =>
          /\ Len(get_session(sessions_csv', result'.ret)) = 1
          /\ get_session(sessions_csv', result'.ret)[1].session_id = result'.ret
          /\ get_session(sessions_csv', result'.ret)[1].created_at = now
          /\ get_session(sessions_csv', result'.ret)[1].total_bets = 0
          /\ get_session(sessions_csv', result'.ret)[1].total_stake = 0
          /\ get_session(sessions_csv', result'.ret)[1].total_expected_profit = 0
          /\ \A id \in 0..nextId :
                 get_session(sessions_csv, id) # <<>> =>
                     get_session(sessions_csv', id) = get_session(sessions_csv, id)
    ]_vars

====
